---------------------------- MODULE Spec2Model ----------------------------
(***************************************************************************)
(* A model of the LR35902 interpreter core of rusty-retro:                 *)
(*   emu/src/gb/cpu/alu.rs          the ALU (pure functions)               *)
(*   emu/src/gb/cpu/instruction.rs  the opcode decoder                     *)
(*   emu/src/gb/cpu/registers.rs    the register file                      *)
(*   emu/src/gb/cpu/mod.rs          fetch, step and the block handlers     *)
(*   emu/src/ram/mod.rs             the byte memory                        *)
(* Bytes are 0..255 and words 0..65535; every u8/u16 operation keeps its   *)
(* width (wrapping_add, overflowing_add, <<, >> are taken modulo 2^w).     *)
(***************************************************************************)
EXTENDS Integers, Sequences, FiniteSets, TLC

VARIABLES
    registers,  \* LR35902.registers : the struct Registers (a f b c d e h l sp pc)
    ram,        \* LR35902.ram       : the cells of Ram.arr that are not zero-filled
    outcome,    \* how the last call of step() ended: not called, returned, panicked
    pre,        \* history: registers, ram and opcode at the entry of the last step()
    log,        \* history: the memory accesses of the last step(), in order
    steps,      \* history: number of step() calls so far
    alu,        \* the ALU function applied last, its arguments and its AluResult
    call        \* the register-file or fetch function called last (outside step()),
                \* its arguments, what it returned and the state it was called in

vars == <<registers, ram, outcome, pre, log, steps, alu, call>>

---------------------------------------------------------------------------
(* Bounds of the model. *)

\* step() calls per behaviour
MaxSteps == 2

\* calls of register-file and fetch functions per behaviour
MaxCalls == 2

\* how many times in a row rotate_left is applied to its own result
MaxRotations == 8

\* how many step() calls a run of one repeated rotate instruction makes
MaxRunSteps == 9

---------------------------------------------------------------------------
(* Integer widths and bit operations of u8 / u16. *)

Byte == 0..255

RECURSIVE BitAnd(_, _)
BitAnd(x, y) ==
    IF x = 0 \/ y = 0 THEN 0
    ELSE (x % 2) * (y % 2) + 2 * BitAnd(x \div 2, y \div 2)

RECURSIVE BitOr(_, _)
BitOr(x, y) ==
    IF x = 0 THEN y
    ELSE IF y = 0 THEN x
    ELSE (IF x % 2 = 1 \/ y % 2 = 1 THEN 1 ELSE 0) + 2 * BitOr(x \div 2, y \div 2)

RECURSIVE BitXor(_, _)
BitXor(x, y) ==
    IF x = 0 THEN y
    ELSE IF y = 0 THEN x
    ELSE ((x + y) % 2) + 2 * BitXor(x \div 2, y \div 2)

\* !m of a u8 bit set
BitNot8(m) == 255 - m

\* `b as u8` of a bool
AsU8(b) == IF b THEN 1 ELSE 0

\* u8::overflowing_add : (wrapped sum, overflowed)
overflowing_add(x, y) == <<(x + y) % 256, x + y > 255>>

\* u8::overflowing_sub : (wrapped difference, borrowed)
overflowing_sub(x, y) == <<(x - y + 256) % 256, x < y>>

\* u16::wrapping_add / wrapping_sub
wrapping_add16(x, y) == (x + y) % 65536

wrapping_sub16(x, y) == (x - y + 65536) % 65536

---------------------------------------------------------------------------
(* alu.rs : AluResultInfo and the ALU functions. *)

InfoZero == 128

InfoSubtraction == 64

InfoHalfCarry == 32

InfoCarry == 16

\* bitflags set(flag, value) : insert the flag when value, remove it otherwise
InfoSet(info, flag, value) ==
    IF value THEN BitOr(info, flag) ELSE BitAnd(info, BitNot8(flag))

\* bitflags contains(flag)
Contains(bits, flag) == BitAnd(bits, flag) = flag

AluResult(res, info) == [res |-> res, info |-> info]

\* an adder that saturates at 0xFF instead of wrapping
add_with_carry_saturating(num1, num2, carry) ==
    LET sum == num1 + num2 + AsU8(carry)
        result == IF sum > 255 THEN 255 ELSE sum
        i1 == InfoSet(0, InfoZero, result = 0)
        half_carry == BitAnd(num1, 15) + BitAnd(num2, 15) + AsU8(carry) > 15
        i3 == InfoSet(i1, InfoHalfCarry, half_carry)
        i4 == InfoSet(i3, InfoCarry, sum > 255)
    IN  AluResult(result, i4)

add_with_carry_carry1_only(num1, num2, carry) ==
    LET s1 == overflowing_add(num1, num2)
        s2 == overflowing_add(s1[1], AsU8(carry))
        result == s2[1]
        i1 == InfoSet(0, InfoZero, result = 0)
        i2 == InfoSet(i1, InfoSubtraction, FALSE)
        half_carry == BitAnd(num1, 15) + BitAnd(num2, 15) + AsU8(carry) > 15
        i3 == InfoSet(i2, InfoHalfCarry, half_carry)
        i4 == InfoSet(i3, InfoCarry, s1[2])
    IN  AluResult(result, i4)

add_with_carry(num1, num2, carry) ==
    LET s1 == overflowing_add(num1, num2)
        intermediate == s1[1]
        carry1 == s1[2]
        s2 == overflowing_add(intermediate, AsU8(carry))
        result == s2[1]
        carry2 == s2[2]
        i1 == InfoSet(0, InfoZero, result = 0)
        i2 == InfoSet(i1, InfoSubtraction, FALSE)
        half_carry == BitAnd(num1, 15) + BitAnd(num2, 15) + AsU8(carry) > 15
        i3 == InfoSet(i2, InfoHalfCarry, half_carry)
        i4 == InfoSet(i3, InfoCarry, carry1 \/ carry2)
    IN  AluResult(result, i4)

subtract_with_carry_half_ignores_carry(num1, num2, carry) ==
    LET s1 == overflowing_sub(num1, num2)
        s2 == overflowing_sub(s1[1], AsU8(carry))
        result == s2[1]
        i1 == InfoSet(0, InfoZero, result = 0)
        i2 == InfoSet(i1, InfoSubtraction, TRUE)
        half_borrow == BitAnd(num1, 15) < BitAnd(num2, 15)
        i3 == InfoSet(i2, InfoHalfCarry, half_borrow)
        i4 == InfoSet(i3, InfoCarry, s1[2] \/ s2[2])
    IN  AluResult(result, i4)

subtract_with_carry(num1, num2, carry) ==
    LET s1 == overflowing_sub(num1, num2)
        intermediate == s1[1]
        borrow1 == s1[2]
        s2 == overflowing_sub(intermediate, AsU8(carry))
        result == s2[1]
        borrow2 == s2[2]
        i1 == InfoSet(0, InfoZero, result = 0)
        i2 == InfoSet(i1, InfoSubtraction, TRUE)
        half_borrow == BitAnd(num1, 15) < BitAnd(num2, 15) + AsU8(carry)
        i3 == InfoSet(i2, InfoHalfCarry, half_borrow)
        i4 == InfoSet(i3, InfoCarry, borrow1 \/ borrow2)
    IN  AluResult(result, i4)

\* an AND that clears HalfCarry as XOR and OR do
bitwise_and_half_carry_clear(num1, num2) ==
    LET res == BitAnd(num1, num2)
        i1 == InfoSet(0, InfoZero, res = 0)
    IN  AluResult(res, i1)

bitwise_and(num1, num2) ==
    LET res == BitAnd(num1, num2)
        i1 == InfoSet(0, InfoZero, res = 0)
        i2 == InfoSet(i1, InfoSubtraction, FALSE)
        i3 == InfoSet(i2, InfoHalfCarry, TRUE)
        i4 == InfoSet(i3, InfoCarry, FALSE)
    IN  AluResult(res, i4)

bitwise_xor(num1, num2) ==
    LET res == BitXor(num1, num2)
        i1 == InfoSet(0, InfoZero, res = 0)
        i2 == InfoSet(i1, InfoSubtraction, FALSE)
        i3 == InfoSet(i2, InfoHalfCarry, FALSE)
        i4 == InfoSet(i3, InfoCarry, FALSE)
    IN  AluResult(res, i4)

bitwise_or(num1, num2) ==
    LET res == BitOr(num1, num2)
        i1 == InfoSet(0, InfoZero, res = 0)
        i2 == InfoSet(i1, InfoSubtraction, FALSE)
        i3 == InfoSet(i2, InfoHalfCarry, FALSE)
        i4 == InfoSet(i3, InfoCarry, FALSE)
    IN  AluResult(res, i4)

\* u8::rotate_left(1) / rotate_right(1)
RotL8(num) == ((num * 2) % 256) + (num \div 128)

RotR8(num) == (num \div 2) + ((num % 2) * 128)

\* a rotate that loses the bit it shifts out
rotate_left_drops_bit(num) ==
    AluResult((num * 2) % 256, InfoSet(0, InfoCarry, BitAnd(num \div 128, 1) = 1))

\* a rotate that reports Zero for a zero result
rotate_left_sets_zero(num) ==
    AluResult(RotL8(num),
              InfoSet(InfoSet(0, InfoZero, RotL8(num) = 0), InfoCarry,
                      BitAnd(num \div 128, 1) = 1))

rotate_left(num) ==
    AluResult(RotL8(num), InfoSet(0, InfoCarry, BitAnd(num \div 128, 1) = 1))

rotate_right(num) ==
    AluResult(RotR8(num), InfoSet(0, InfoCarry, BitAnd(num, 1) = 1))

rotate_left_through_carry(num, carry) ==
    AluResult(BitOr((num * 2) % 256, AsU8(carry)),
              InfoSet(0, InfoCarry, BitAnd(num \div 128, 1) = 1))

\* a rotate through carry that refills bit 7 from bit 0 (a plain rotate)
rotate_right_through_carry_circular(num, carry) ==
    AluResult(RotR8(num), InfoSet(0, InfoCarry, BitAnd(num, 1) = 1))

rotate_right_through_carry(num, carry) ==
    AluResult(BitOr(num \div 2, (AsU8(carry) * 128) % 256),
              InfoSet(0, InfoCarry, BitAnd(num, 1) = 1))

---------------------------------------------------------------------------
(* instruction.rs : the decoder. *)

\* a decoder that keeps four bits for y
DecodedOpcode_wide_y(value) ==
    [x |-> BitAnd(value \div 64, 3),
     y |-> BitAnd(value \div 8, 15),
     z |-> BitAnd(value, 7)]

\* impl From<u8> for DecodedOpcode
DecodedOpcode(value) ==
    [x |-> BitAnd(value \div 64, 3),
     y |-> BitAnd(value \div 8, 7),
     z |-> BitAnd(value, 7)]

\* impl From<u8> for Instruction
Instruction(value) == [opcode |-> value, decoded |-> DecodedOpcode(value)]

p(decoded) == BitAnd(decoded.y \div 2, 3)

q(decoded) == BitAnd(decoded.y, 1)

\* enum R8, by discriminant
R8 == <<"B", "C", "D", "E", "H", "L", "HLMem", "A">>

\* enum R16, by discriminant
R16 == <<"BC", "DE", "HL", "SP">>

\* enum R16Mem, by discriminant
R16Mem == <<"BC", "DE", "HLInc", "HLDec">>

\* TryFromPrimitive::try_from : Ok(variant) for a discriminant of the enum,
\* Err otherwise (the unwrap() of the callers panics on Err)
try_from_primitive(variants, number) ==
    IF number \in 0..(Len(variants) - 1)
    THEN [ok |-> TRUE, val |-> variants[number + 1]]
    ELSE [ok |-> FALSE]

\* R8::try_from(self.y).unwrap()
r8_y(decoded) == try_from_primitive(R8, decoded.y).val

r8_z(decoded) == try_from_primitive(R8, decoded.z).val

r16_p(decoded) == try_from_primitive(R16, p(decoded)).val

r16mem_p(decoded) == try_from_primitive(R16Mem, p(decoded)).val

---------------------------------------------------------------------------
(* registers.rs : the register file. *)

\* a conversion in which the HL-indirect selector collapses into register H
Register8Bit_try_from_hlmem_is_h(value) ==
    IF value = "HLMem" THEN [ok |-> TRUE, reg |-> "H"] ELSE [ok |-> TRUE, reg |-> value]

\* impl TryFrom<R8> for Register8Bit : Ok(reg), or Err for R8::HLMem
Register8Bit_try_from(value) ==
    IF value = "HLMem" THEN [ok |-> FALSE] ELSE [ok |-> TRUE, reg |-> value]

\* impl From<R16> for Register16Bit
Register16Bit_from_R16(value) == value

\* impl From<R16Mem> for Register16Bit
Register16Bit_from_R16Mem(value) ==
    IF value \in {"HLInc", "HLDec"} THEN "HL" ELSE value

FlagZero == 128

FlagSubtraction == 64

FlagHalfCarry == 32

FlagCarry == 16

\* FlagsRegister::all()
FlagsAll == BitOr(BitOr(FlagZero, FlagSubtraction), BitOr(FlagHalfCarry, FlagCarry))

\* FlagsRegister::from_bits_truncate
from_bits_truncate(bits) == BitAnd(bits, FlagsAll)

\* Registers::new
Registers_new ==
    [a |-> 0, f |-> 0, b |-> 0, c |-> 0, d |-> 0, e |-> 0, h |-> 0, l |-> 0,
     sp |-> 0, pc |-> 0]

get_flags(regs) == regs.f

get_register_8bit(regs, register) ==
    CASE register = "A" -> regs.a
      [] register = "B" -> regs.b
      [] register = "C" -> regs.c
      [] register = "D" -> regs.d
      [] register = "E" -> regs.e
      [] register = "H" -> regs.h
      [] register = "L" -> regs.l

set_register_8bit(regs, register, val) ==
    CASE register = "A" -> [regs EXCEPT !.a = val]
      [] register = "B" -> [regs EXCEPT !.b = val]
      [] register = "C" -> [regs EXCEPT !.c = val]
      [] register = "D" -> [regs EXCEPT !.d = val]
      [] register = "E" -> [regs EXCEPT !.e = val]
      [] register = "H" -> [regs EXCEPT !.h = val]
      [] register = "L" -> [regs EXCEPT !.l = val]

\* a pair read that composes the halves low byte first
get_register_16bit_low_first(regs, register) ==
    CASE register = "AF" -> BitOr((BitAnd(regs.f, 240) * 256) % 65536, regs.a)
      [] register = "BC" -> BitOr((regs.c * 256) % 65536, regs.b)
      [] register = "DE" -> BitOr((regs.e * 256) % 65536, regs.d)
      [] register = "HL" -> BitOr((regs.l * 256) % 65536, regs.h)
      [] register = "SP" -> regs.sp
      [] register = "PC" -> regs.pc

get_register_16bit(regs, register) ==
    CASE register = "AF" -> BitOr((regs.a * 256) % 65536, BitAnd(regs.f, 240))
      [] register = "BC" -> BitOr((regs.b * 256) % 65536, regs.c)
      [] register = "DE" -> BitOr((regs.d * 256) % 65536, regs.e)
      [] register = "HL" -> BitOr((regs.h * 256) % 65536, regs.l)
      [] register = "SP" -> regs.sp
      [] register = "PC" -> regs.pc

\* a pair write that stores the low byte into F as it comes
set_register_16bit_af_unmasked(regs, register, val) ==
    LET low == BitAnd(val, 255)
        high == (val \div 256) % 256
    IN  CASE register = "AF" -> [regs EXCEPT !.a = high, !.f = low]
          [] register = "BC" -> [regs EXCEPT !.b = high, !.c = low]
          [] register = "DE" -> [regs EXCEPT !.d = high, !.e = low]
          [] register = "HL" -> [regs EXCEPT !.h = high, !.l = low]
          [] register = "SP" -> [regs EXCEPT !.sp = val]
          [] register = "PC" -> [regs EXCEPT !.pc = val]

set_register_16bit(regs, register, val) ==
    LET low == BitAnd(val, 255)
        high == (val \div 256) % 256
    IN  CASE register = "AF" ->
                [regs EXCEPT !.a = high, !.f = from_bits_truncate(BitAnd(low, 240))]
          [] register = "BC" -> [regs EXCEPT !.b = high, !.c = low]
          [] register = "DE" -> [regs EXCEPT !.d = high, !.e = low]
          [] register = "HL" -> [regs EXCEPT !.h = high, !.l = low]
          [] register = "SP" -> [regs EXCEPT !.sp = val]
          [] register = "PC" -> [regs EXCEPT !.pc = val]

set_flags_from_alu_res_info(regs, res_info, mask) ==
    LET removed == BitAnd(regs.f, BitNot8(mask))
    IN  [regs EXCEPT !.f = BitOr(removed, BitAnd(from_bits_truncate(res_info), mask))]

set_flags_insert_only(regs, new_flags, mask) ==
    [regs EXCEPT !.f = BitOr(regs.f, BitAnd(from_bits_truncate(new_flags), mask))]

set_flags(regs, new_flags, mask) ==
    LET removed == BitAnd(regs.f, BitNot8(mask))
    IN  [regs EXCEPT !.f = BitOr(removed, BitAnd(from_bits_truncate(new_flags), mask))]

---------------------------------------------------------------------------
(* ram/mod.rs : the byte memory.  Ram::new(addr_space) zero-fills addr_space  *)
(* cells; the model keeps the cells that were written and reads 0 elsewhere. *)
(* Every address the CPU forms is a u16 and the RAM has 0x10000 cells, so no *)
(* index is out of range.                                                    *)

Ram_read(arr, addr) == IF addr \in DOMAIN arr THEN arr[addr] ELSE 0

Ram_write(arr, addr, data) ==
    [x \in (DOMAIN arr) \cup {addr} |-> IF x = addr THEN data ELSE arr[x]]

---------------------------------------------------------------------------
(* cpu/mod.rs : the execution engine.  A machine value m holds the fields of *)
(* LR35902 (registers, ram) and the access log of the running step(); a      *)
(* handler yields the machine it leaves and how it ended.                    *)

Machine(regs, arr, accesses) == [registers |-> regs, ram |-> arr, log |-> accesses]

Access(kind, addr) == [kind |-> kind, addr |-> addr]

\* the function returns to its caller
Returned(m) ==
    [registers |-> m.registers, ram |-> m.ram, log |-> m.log,
     result |-> [kind |-> "returned"]]

\* the function panics: the panic unwinds through step() with this payload
Panicked(m, msg) ==
    [registers |-> m.registers, ram |-> m.ram, log |-> m.log,
     result |-> [kind |-> "panicked", payload |-> [msg |-> msg]]]

\* self.ram.borrow().read(addr)
mem_read(m, addr) ==
    [data |-> Ram_read(m.ram, addr),
     m |-> [m EXCEPT !.log = Append(@, Access("read", addr))]]

\* self.ram.borrow_mut().write(addr, data)
mem_write(m, addr, data) ==
    [m EXCEPT !.ram = Ram_write(@, addr, data),
              !.log = Append(@, Access("write", addr))]

\* a fetch whose program counter does not wrap
fetch_imm8_no_wrap(m) ==
    LET addr == get_register_16bit(m.registers, "PC")
        data == Ram_read(m.ram, addr)
    IN  [data |-> data,
         m |-> [m EXCEPT !.registers = set_register_16bit(@, "PC", addr + 1),
                         !.log = Append(@, Access("fetch", addr))]]

fetch_imm8(m) ==
    LET addr == get_register_16bit(m.registers, "PC")
        data == Ram_read(m.ram, addr)
        next == wrapping_add16(get_register_16bit(m.registers, "PC"), 1)
    IN  [data |-> data,
         m |-> [m EXCEPT !.registers = set_register_16bit(@, "PC", next),
                         !.log = Append(@, Access("fetch", addr))]]

\* a 16-bit fetch that takes the first byte as the high half
fetch_imm16_high_first(m) ==
    LET high == fetch_imm8(m)
        low == fetch_imm8(high.m)
    IN  [data |-> BitOr((high.data * 256) % 65536, low.data), m |-> low.m]

fetch_imm16(m) ==
    LET low == fetch_imm8(m)
        high == fetch_imm8(low.m)
    IN  [data |-> BitOr((high.data * 256) % 65536, low.data), m |-> high.m]

\* match reg_or_mem { Ok(reg) => get_register_8bit(reg), Err(_) => ram.read(HL) }
read_reg_or_mem(m, reg_or_mem) ==
    IF reg_or_mem.ok
    THEN [data |-> get_register_8bit(m.registers, reg_or_mem.reg), m |-> m]
    ELSE mem_read(m, get_register_16bit(m.registers, "HL"))

\* match reg_or_mem { Ok(reg) => set_register_8bit(reg, v), Err(_) => ram.write(HL, v) }
write_reg_or_mem(m, reg_or_mem, val) ==
    IF reg_or_mem.ok
    THEN [m EXCEPT !.registers = set_register_8bit(@, reg_or_mem.reg, val)]
    ELSE mem_write(m, get_register_16bit(m.registers, "HL"), val)

\* a 16-bit load that fetches one immediate byte only
ld_r16_imm16_one_byte(m, instruction) ==
    LET imm == fetch_imm8(m)
        dest == Register16Bit_from_R16(r16_p(instruction.decoded))
    IN  [imm.m EXCEPT !.registers = set_register_16bit(@, dest, imm.data)]

\* (_, 0b0, 0b001) ld r16, imm16
ld_r16_imm16(m, instruction) ==
    LET imm == fetch_imm16(m)
        dest == Register16Bit_from_R16(r16_p(instruction.decoded))
    IN  [imm.m EXCEPT !.registers = set_register_16bit(@, dest, imm.data)]

\* match on R16Mem after the access: HLInc / HLDec move HL, BC / DE do not
post_r16mem(m, reg, addr) ==
    CASE reg = "HLInc" ->
            [m EXCEPT !.registers = set_register_16bit(@, "HL", wrapping_add16(addr, 1))]
      [] reg = "HLDec" ->
            [m EXCEPT !.registers = set_register_16bit(@, "HL", wrapping_sub16(addr, 1))]
      [] OTHER -> m

\* a store that moves HL first and then writes at the moved HL
ld_r16mem_a_moves_hl_first(m, instruction) ==
    LET dest_reg == r16mem_p(instruction.decoded)
        old_addr == get_register_16bit(m.registers, Register16Bit_from_R16Mem(dest_reg))
        m1 == post_r16mem(m, dest_reg, old_addr)
        dest_addr == get_register_16bit(m1.registers, Register16Bit_from_R16Mem(dest_reg))
        a == get_register_8bit(m1.registers, "A")
    IN  mem_write(m1, dest_addr, a)

\* (_, 0b0, 0b010) ld [r16mem], a
ld_r16mem_a(m, instruction) ==
    LET dest_reg == r16mem_p(instruction.decoded)
        dest_addr == get_register_16bit(m.registers, Register16Bit_from_R16Mem(dest_reg))
        a == get_register_8bit(m.registers, "A")
    IN  post_r16mem(mem_write(m, dest_addr, a), dest_reg, dest_addr)

\* a load of A that stores A at the address instead
ld_a_r16mem_as_store(m, instruction) == ld_r16mem_a(m, instruction)

\* (_, 0b1, 0b010) ld a, [r16mem]
ld_a_r16mem(m, instruction) ==
    LET src_reg == r16mem_p(instruction.decoded)
        src_addr == get_register_16bit(m.registers, Register16Bit_from_R16Mem(src_reg))
        src == mem_read(m, src_addr)
        m1 == [src.m EXCEPT !.registers = set_register_8bit(@, "A", src.data)]
    IN  post_r16mem(m1, src_reg, src_addr)

\* a store of SP that writes the high byte first
ld_imm16_sp_high_first(m, instruction) ==
    LET dest == fetch_imm16(m)
        sp == get_register_16bit(dest.m.registers, "SP")
        m1 == mem_write(dest.m, dest.data, (sp \div 256) % 256)
    IN  mem_write(m1, wrapping_add16(dest.data, 1), BitAnd(sp, 255))

\* (0b00, 0b1, 0b000) ld [imm16], sp
ld_imm16_sp(m, instruction) ==
    LET dest == fetch_imm16(m)
        sp == get_register_16bit(dest.m.registers, "SP")
        m1 == mem_write(dest.m, dest.data, BitAnd(sp, 255))
    IN  mem_write(m1, wrapping_add16(dest.data, 1), (sp \div 256) % 256)

\* (_, 0b0, 0b011) inc r16
inc_r16(m, instruction) ==
    LET reg == Register16Bit_from_R16(r16_p(instruction.decoded))
        cur_reg_val == get_register_16bit(m.registers, reg)
    IN  [m EXCEPT !.registers = set_register_16bit(@, reg, wrapping_add16(cur_reg_val, 1))]

\* a decrement that stops at 0x0000 instead of wrapping
dec_r16_saturating(m, instruction) ==
    LET reg == Register16Bit_from_R16(r16_p(instruction.decoded))
        cur_reg_val == get_register_16bit(m.registers, reg)
    IN  [m EXCEPT !.registers =
            set_register_16bit(@, reg, IF cur_reg_val = 0 THEN 0 ELSE cur_reg_val - 1)]

\* (_, 0b1, 0b011) dec r16
dec_r16(m, instruction) ==
    LET reg == Register16Bit_from_R16(r16_p(instruction.decoded))
        cur_reg_val == get_register_16bit(m.registers, reg)
    IN  [m EXCEPT !.registers = set_register_16bit(@, reg, wrapping_sub16(cur_reg_val, 1))]

add_hl_r16_no_carry_chain(m, instruction) ==
    LET hl == get_register_16bit(m.registers, "HL")
        add_reg_val ==
            get_register_16bit(m.registers, Register16Bit_from_R16(r16_p(instruction.decoded)))
        lower == add_with_carry(BitAnd(hl, 255), BitAnd(add_reg_val, 255), FALSE)
        upper == add_with_carry((hl \div 256) % 256, (add_reg_val \div 256) % 256, FALSE)
        new_hl == BitOr((upper.res * 256) % 65536, lower.res)
        regs1 == set_register_16bit(m.registers, "HL", new_hl)
        mask == BitOr(BitOr(FlagCarry, FlagHalfCarry), FlagSubtraction)
    IN  [m EXCEPT !.registers = set_flags_from_alu_res_info(regs1, upper.info, mask)]

\* (_, 0b1, 0b001) add hl, r16
add_hl_r16(m, instruction) ==
    LET hl == get_register_16bit(m.registers, "HL")
        add_reg_val ==
            get_register_16bit(m.registers, Register16Bit_from_R16(r16_p(instruction.decoded)))
        lower == add_with_carry(BitAnd(hl, 255), BitAnd(add_reg_val, 255), FALSE)
        upper == add_with_carry((hl \div 256) % 256, (add_reg_val \div 256) % 256,
                                Contains(lower.info, InfoCarry))
        new_hl == BitOr((upper.res * 256) % 65536, lower.res)
        regs1 == set_register_16bit(m.registers, "HL", new_hl)
        mask == BitOr(BitOr(FlagCarry, FlagHalfCarry), FlagSubtraction)
    IN  [m EXCEPT !.registers = set_flags_from_alu_res_info(regs1, upper.info, mask)]

inc_r8_commits_carry(m, instruction) ==
    LET reg_or_mem == Register8Bit_try_from(r8_y(instruction.decoded))
        cur == read_reg_or_mem(m, reg_or_mem)
        inc_val == add_with_carry(cur.data, 1, FALSE)
        m1 == write_reg_or_mem(cur.m, reg_or_mem, inc_val.res)
    IN  [m1 EXCEPT !.registers = set_flags_from_alu_res_info(@, inc_val.info, FlagsAll)]

\* (_, _, 0b100) inc r8
inc_r8(m, instruction) ==
    LET reg_or_mem == Register8Bit_try_from(r8_y(instruction.decoded))
        cur == read_reg_or_mem(m, reg_or_mem)
        inc_val == add_with_carry(cur.data, 1, FALSE)
        m1 == write_reg_or_mem(cur.m, reg_or_mem, inc_val.res)
        mask == BitOr(BitOr(FlagZero, FlagSubtraction), FlagHalfCarry)
    IN  [m1 EXCEPT !.registers = set_flags_from_alu_res_info(@, inc_val.info, mask)]

\* (_, _, 0b101) dec r8
dec_r8(m, instruction) ==
    LET reg_or_mem == Register8Bit_try_from(r8_y(instruction.decoded))
        cur == read_reg_or_mem(m, reg_or_mem)
        dec_val == subtract_with_carry(cur.data, 1, FALSE)
        m1 == write_reg_or_mem(cur.m, reg_or_mem, dec_val.res)
        mask == BitOr(BitOr(FlagZero, FlagSubtraction), FlagHalfCarry)
    IN  [m1 EXCEPT !.registers = set_flags_from_alu_res_info(@, dec_val.info, mask)]

\* a load that picks its destination by the z field
ld_r8_imm8_dest_by_z(m, instruction) ==
    LET src == fetch_imm8(m)
    IN  write_reg_or_mem(src.m, Register8Bit_try_from(r8_z(instruction.decoded)), src.data)

\* (_, _, 0b110) ld r8, imm8
ld_r8_imm8(m, instruction) ==
    LET src == fetch_imm8(m)
    IN  write_reg_or_mem(src.m, Register8Bit_try_from(r8_y(instruction.decoded)), src.data)

\* a commit that touches Carry only and keeps Zero, Subtract and HalfCarry
commit_a_carry_only(m, res) ==
    [m EXCEPT !.registers =
        set_flags_from_alu_res_info(set_register_8bit(@, "A", res.res), res.info, FlagCarry)]

\* set A and commit all four flags from an AluResult (rlca, rrca, rla, rra)
commit_a_all_flags(m, res) ==
    [m EXCEPT !.registers =
        set_flags_from_alu_res_info(set_register_8bit(@, "A", res.res), res.info, FlagsAll)]

\* (0b00, 0b0, 0b111) rlca
rlca(m) == commit_a_all_flags(m, rotate_left(get_register_8bit(m.registers, "A")))

\* (0b00, 0b1, 0b111) rrca
rrca(m) == commit_a_all_flags(m, rotate_right(get_register_8bit(m.registers, "A")))

\* an RLA that rotates A alone, as RLCA does
rla_as_rlca(m) == rlca(m)

\* (0b01, 0b0, 0b111) rla
rla(m) ==
    commit_a_all_flags(m,
        rotate_left_through_carry(get_register_8bit(m.registers, "A"),
                                  Contains(get_flags(m.registers), FlagCarry)))

\* (0b01, 0b1, 0b111) rra
rra(m) ==
    commit_a_all_flags(m,
        rotate_right_through_carry(get_register_8bit(m.registers, "A"),
                                   Contains(get_flags(m.registers), FlagCarry)))

block0_arm_sp_store_any_p(pp, qq, zz) ==
    IF qq = 0 /\ zz = 0 THEN "nop"
    ELSE IF qq = 0 /\ zz = 1 THEN "ld_r16_imm16"
    ELSE IF qq = 0 /\ zz = 2 THEN "ld_r16mem_a"
    ELSE IF qq = 1 /\ zz = 2 THEN "ld_a_r16mem"
    ELSE IF qq = 1 /\ zz = 0 THEN "ld_imm16_sp"
    ELSE IF qq = 0 /\ zz = 3 THEN "inc_r16"
    ELSE IF qq = 1 /\ zz = 3 THEN "dec_r16"
    ELSE IF qq = 1 /\ zz = 1 THEN "add_hl_r16"
    ELSE IF zz = 4 THEN "inc_r8"
    ELSE IF zz = 5 THEN "dec_r8"
    ELSE IF zz = 6 THEN "ld_r8_imm8"
    ELSE IF pp = 0 /\ qq = 0 /\ zz = 7 THEN "rlca"
    ELSE IF pp = 0 /\ qq = 1 /\ zz = 7 THEN "rrca"
    ELSE IF pp = 1 /\ qq = 0 /\ zz = 7 THEN "rla"
    ELSE IF pp = 1 /\ qq = 1 /\ zz = 7 THEN "rra"
    ELSE "unimplemented"

\* the match on (p, q, z) of handle_block0: the first arm, in source order, that matches
block0_arm(pp, qq, zz) ==
    IF qq = 0 /\ zz = 0 THEN "nop"
    ELSE IF qq = 0 /\ zz = 1 THEN "ld_r16_imm16"
    ELSE IF qq = 0 /\ zz = 2 THEN "ld_r16mem_a"
    ELSE IF qq = 1 /\ zz = 2 THEN "ld_a_r16mem"
    ELSE IF pp = 0 /\ qq = 1 /\ zz = 0 THEN "ld_imm16_sp"
    ELSE IF qq = 0 /\ zz = 3 THEN "inc_r16"
    ELSE IF qq = 1 /\ zz = 3 THEN "dec_r16"
    ELSE IF qq = 1 /\ zz = 1 THEN "add_hl_r16"
    ELSE IF zz = 4 THEN "inc_r8"
    ELSE IF zz = 5 THEN "dec_r8"
    ELSE IF zz = 6 THEN "ld_r8_imm8"
    ELSE IF pp = 0 /\ qq = 0 /\ zz = 7 THEN "rlca"
    ELSE IF pp = 0 /\ qq = 1 /\ zz = 7 THEN "rrca"
    ELSE IF pp = 1 /\ qq = 0 /\ zz = 7 THEN "rla"
    ELSE IF pp = 1 /\ qq = 1 /\ zz = 7 THEN "rra"
    ELSE "unimplemented"

handle_block0(m, instruction) ==
    IF instruction.decoded.x # 0
    THEN Panicked(m, "assertion failed: left == right")
    ELSE
    LET arm == block0_arm(p(instruction.decoded), q(instruction.decoded),
                          instruction.decoded.z)
    IN  CASE arm = "nop" -> Returned(m)
          [] arm = "ld_r16_imm16" -> Returned(ld_r16_imm16(m, instruction))
          [] arm = "ld_r16mem_a" -> Returned(ld_r16mem_a(m, instruction))
          [] arm = "ld_a_r16mem" -> Returned(ld_a_r16mem(m, instruction))
          [] arm = "ld_imm16_sp" -> Returned(ld_imm16_sp(m, instruction))
          [] arm = "inc_r16" -> Returned(inc_r16(m, instruction))
          [] arm = "dec_r16" -> Returned(dec_r16(m, instruction))
          [] arm = "add_hl_r16" -> Returned(add_hl_r16(m, instruction))
          [] arm = "inc_r8" -> Returned(inc_r8(m, instruction))
          [] arm = "dec_r8" -> Returned(dec_r8(m, instruction))
          [] arm = "ld_r8_imm8" -> Returned(ld_r8_imm8(m, instruction))
          [] arm = "rlca" -> Returned(rlca(m))
          [] arm = "rrca" -> Returned(rrca(m))
          [] arm = "rla" -> Returned(rla(m))
          [] arm = "rra" -> Returned(rra(m))
          [] arm = "unimplemented" -> Panicked(m, "not implemented")

is_halt_never(instruction) == FALSE

\* if instruction.decoded.y == 0b110 && instruction.decoded.z == 0b110
is_halt(instruction) == instruction.decoded.y = 6 /\ instruction.decoded.z = 6

\* a block 1 that copies from r8(y) into r8(z)
handle_block1_swapped(m, instruction) ==
    IF instruction.decoded.x # 1
    THEN Panicked(m, "assertion failed: left == right")
    ELSE IF is_halt(instruction)
    THEN Panicked(m, "not implemented: HALT")
    ELSE
    LET src == read_reg_or_mem(m, Register8Bit_try_from(r8_y(instruction.decoded)))
    IN  Returned(write_reg_or_mem(src.m, Register8Bit_try_from(r8_z(instruction.decoded)),
                                  src.data))

handle_block1(m, instruction) ==
    IF instruction.decoded.x # 1
    THEN Panicked(m, "assertion failed: left == right")
    ELSE IF is_halt(instruction)
    THEN Panicked(m, "not implemented: HALT")
    ELSE
    LET src == read_reg_or_mem(m, Register8Bit_try_from(r8_z(instruction.decoded)))
    IN  Returned(write_reg_or_mem(src.m, Register8Bit_try_from(r8_y(instruction.decoded)),
                                  src.data))

block2_alu_adc_sbc_without_carry(y, a, src, f) ==
    CASE y = 0 -> add_with_carry(a, src, FALSE)
      [] y = 1 -> add_with_carry(a, src, FALSE)
      [] y = 2 -> subtract_with_carry(a, src, FALSE)
      [] y = 3 -> subtract_with_carry(a, src, FALSE)
      [] y = 4 -> bitwise_and(a, src)
      [] y = 5 -> bitwise_xor(a, src)
      [] y = 6 -> bitwise_or(a, src)
      [] y = 7 -> subtract_with_carry(a, src, FALSE)

\* let alu_res = match instruction.decoded.y { ... }
block2_alu(y, a, src, f) ==
    CASE y = 0 -> add_with_carry(a, src, FALSE)
      [] y = 1 -> add_with_carry(a, src, Contains(f, FlagCarry))
      [] y = 2 -> subtract_with_carry(a, src, FALSE)
      [] y = 3 -> subtract_with_carry(a, src, Contains(f, FlagCarry))
      [] y = 4 -> bitwise_and(a, src)
      [] y = 5 -> bitwise_xor(a, src)
      [] y = 6 -> bitwise_or(a, src)
      [] y = 7 -> subtract_with_carry(a, src, FALSE)

block2_writes_a_always(y) == TRUE

\* if instruction.decoded.y != 0b111
block2_writes_a(y) == y # 7

handle_block2(m, instruction) ==
    IF instruction.decoded.x # 2
    THEN Panicked(m, "assertion failed: left == right")
    ELSE
    LET a == get_register_8bit(m.registers, "A")
        f == get_flags(m.registers)
        src == read_reg_or_mem(m, Register8Bit_try_from(r8_z(instruction.decoded)))
        alu_res == block2_alu(instruction.decoded.y, a, src.data, f)
        regs1 == IF block2_writes_a(instruction.decoded.y)
                 THEN set_register_8bit(src.m.registers, "A", alu_res.res)
                 ELSE src.m.registers
    IN  Returned([src.m EXCEPT !.registers =
                    set_flags_from_alu_res_info(regs1, alu_res.info, FlagsAll)])

handle_block3(m, instruction) ==
    IF instruction.decoded.x # 3
    THEN Panicked(m, "assertion failed: left == right")
    ELSE Returned(m)

step(m) ==
    LET opcode == fetch_imm8(m)
        instruction == Instruction(opcode.data)
    IN  CASE instruction.decoded.x = 0 -> handle_block0(opcode.m, instruction)
          [] instruction.decoded.x = 1 -> handle_block1(opcode.m, instruction)
          [] instruction.decoded.x = 2 -> handle_block2(opcode.m, instruction)
          [] instruction.decoded.x = 3 -> handle_block3(opcode.m, instruction)
          [] OTHER -> Panicked(opcode.m, "internal error: entered unreachable code")

---------------------------------------------------------------------------
(* The state machine. *)

EmptyRam == [x \in {} |-> 0]

\* a Ram whose cells hold the given bytes (address :> byte pairs), zero elsewhere
RamImage(cells) == [x \in DOMAIN cells |-> cells[x]]

NotCalled == [kind |-> "none"]

AluIdle == [fn |-> "none", num1 |-> 0, num2 |-> 0, carry |-> FALSE, out |-> AluResult(0, 0)]

NoCall == [fn |-> "none", count |-> 0]

History(regs, arr) == [registers |-> regs, ram |-> arr, opcode |-> Ram_read(arr, regs.pc)]

\* LR35902::new(sys_ram) : zeroed registers over the RAM handed in, whose first
\* three cells hold a program
Init ==
    /\ registers = Registers_new
    /\ \E op \in Byte, b1 \in Byte, b2 \in {0, 118} :
          ram = RamImage(0 :> op @@ 1 :> b1 @@ 2 :> b2)
    /\ outcome = NotCalled
    /\ pre = History(registers, ram)
    /\ log = << >>
    /\ steps = 0
    /\ alu = AluIdle
    /\ call = NoCall

\* one call of step() by the driving loop; a panic ends the run
Step ==
    /\ steps < MaxSteps
    /\ outcome.kind # "panicked"
    /\ LET r == step(Machine(registers, ram, << >>))
       IN  /\ registers' = r.registers
           /\ ram' = r.ram
           /\ log' = r.log
           /\ outcome' = r.result
    /\ pre' = History(registers, ram)
    /\ steps' = steps + 1
    /\ UNCHANGED <<alu, call>>

Next == Step

Spec == Init /\ [][Next]_vars

(* step() from any register file: the opcode ranges over all 256 bytes, the *)
(* flags over all 16 values, A and the other registers over samples.        *)

ASamples == {0, 24, 245, 255}

FlagValues == {16 * n : n \in 0..15}

RegisterSamples ==
    { [b |-> 13, c |-> 66, d |-> 255, e |-> 1, h |-> 33, l |-> 18, sp |-> 65534, pc |-> 0],
      [b |-> 0, c |-> 255, d |-> 128, e |-> 15, h |-> 255, l |-> 255, sp |-> 1, pc |-> 256],
      [b |-> 240, c |-> 15, d |-> 1, e |-> 0, h |-> 0, l |-> 255, sp |-> 32768, pc |-> 65535] }

\* the cells the sampled register pairs point at
DataCells == 8466 :> 24 @@ 65535 :> 255 @@ 255 :> 0 @@ 3394 :> 90 @@ 65281 :> 165

InitStep ==
    /\ \E av \in ASamples, fv \in FlagValues, rs \in RegisterSamples :
          registers = [a |-> av, f |-> fv, b |-> rs.b, c |-> rs.c, d |-> rs.d, e |-> rs.e,
                       h |-> rs.h, l |-> rs.l, sp |-> rs.sp, pc |-> rs.pc]
    /\ \E op \in Byte :
          ram = RamImage(registers.pc :> op
                         @@ wrapping_add16(registers.pc, 1) :> 52
                         @@ wrapping_add16(registers.pc, 2) :> 18
                         @@ DataCells)
    /\ outcome = NotCalled
    /\ pre = History(registers, ram)
    /\ log = << >>
    /\ steps = 0
    /\ alu = AluIdle
    /\ call = NoCall

SpecStep == InitStep /\ [][Next]_vars

(* ADD HL, r16 from any pair of 16-bit operands: HL and the selected pair    *)
(* range over WordSamples, the flags over all 16 values.                    *)

WordSamples == {0, 1, 255, 256, 3840, 4095, 4096, 32767, 32768, 61440, 65281, 65535}

AddHlOpcodes == {9, 25, 41, 57}

\* a register file with distinct bytes in every cell
DistinctRegisters ==
    [a |-> 7, f |-> 0, b |-> 17, c |-> 34, d |-> 51, e |-> 68, h |-> 85, l |-> 102,
     sp |-> 30583, pc |-> 0]

InitAddHl ==
    /\ \E op \in AddHlOpcodes, hv \in WordSamples, rv \in WordSamples, fv \in FlagValues :
          /\ registers =
                set_register_16bit(
                    set_register_16bit([DistinctRegisters EXCEPT !.f = fv], "HL", hv),
                    Register16Bit_from_R16(r16_p(DecodedOpcode(op))), rv)
          /\ ram = RamImage(0 :> op @@ 1 :> op @@ 2 :> op)
    /\ outcome = NotCalled
    /\ pre = History(registers, ram)
    /\ log = << >>
    /\ steps = 0
    /\ alu = AluIdle
    /\ call = NoCall

SpecAddHl == InitAddHl /\ [][Next]_vars

(* step() on the eight LD r8, imm8 opcodes with every immediate byte, from a *)
(* fresh CPU and from sampled register files.                                *)

LdImm8Opcodes == {6, 14, 22, 30, 38, 46, 54, 62}

LdImm8Registers ==
    {Registers_new} \cup
    { [a |-> av, f |-> fv, b |-> rs.b, c |-> rs.c, d |-> rs.d, e |-> rs.e,
       h |-> rs.h, l |-> rs.l, sp |-> rs.sp, pc |-> rs.pc] :
         av \in {245}, fv \in {0, 80, 240}, rs \in RegisterSamples }

InitLdImm8 ==
    /\ registers \in LdImm8Registers
    /\ \E op \in LdImm8Opcodes, imm \in Byte :
          ram = RamImage(registers.pc :> op
                         @@ wrapping_add16(registers.pc, 1) :> imm
                         @@ wrapping_add16(registers.pc, 2) :> op
                         @@ wrapping_add16(registers.pc, 3) :> BitNot8(imm)
                         @@ DataCells)
    /\ outcome = NotCalled
    /\ pre = History(registers, ram)
    /\ log = << >>
    /\ steps = 0
    /\ alu = AluIdle
    /\ call = NoCall

SpecLdImm8 == InitLdImm8 /\ [][Next]_vars

(* step() on RLCA, RRCA, RLA and RRA with every value of A and of the flags. *)

RotateAOpcodes == {7, 15, 23, 31}

InitRotateA ==
    /\ \E av \in Byte, fv \in FlagValues :
          registers = [DistinctRegisters EXCEPT !.a = av, !.f = fv]
    /\ \E op \in RotateAOpcodes, op2 \in RotateAOpcodes :
          ram = RamImage(0 :> op @@ 1 :> op2 @@ 2 :> op)
    /\ outcome = NotCalled
    /\ pre = History(registers, ram)
    /\ log = << >>
    /\ steps = 0
    /\ alu = AluIdle
    /\ call = NoCall

SpecRotateA == InitRotateA /\ [][Next]_vars

(* step() on LD [r16mem], A and LD A, [r16mem] with HL at both ends of the   *)
(* address space.                                                            *)

R16MemOpcodes == {2, 18, 34, 50, 10, 26, 42, 58}

HlSamples == {0, 1, 8466, 65534, 65535}

\* distinct bytes at the addresses the pairs point at and next to them
R16MemCells ==
    0 :> 11 @@ 1 :> 22 @@ 2 :> 33 @@ 65535 :> 44 @@ 65534 :> 55 @@ 65533 :> 66
    @@ 8466 :> 24 @@ 8465 :> 77 @@ 8467 :> 88 @@ 3394 :> 99 @@ 65281 :> 165

InitR16Mem ==
    /\ \E av \in {0, 90}, fv \in {0, 80, 240}, hv \in HlSamples :
          registers = [a |-> av, f |-> fv, b |-> 13, c |-> 66, d |-> 255, e |-> 1,
                       h |-> hv \div 256, l |-> hv % 256, sp |-> 30583, pc |-> 256]
    /\ \E op \in R16MemOpcodes, op2 \in {34, 58} :
          ram = RamImage(256 :> op @@ 257 :> op2 @@ R16MemCells)
    /\ outcome = NotCalled
    /\ pre = History(registers, ram)
    /\ log = << >>
    /\ steps = 0
    /\ alu = AluIdle
    /\ call = NoCall

SpecR16Mem == InitR16Mem /\ [][Next]_vars

(* step() on LD [imm16], SP with the immediate address and the program       *)
(* counter at both ends of the address space.                                *)

SpSamples == {0, 255, 4660, 65534}

InitLdSp ==
    /\ \E sv \in SpSamples, pv \in {0, 256, 65534, 65535}, fv \in {0, 240} :
          registers = [DistinctRegisters EXCEPT !.sp = sv, !.pc = pv, !.f = fv]
    /\ \E lo \in {0, 1, 18, 255}, hi \in {0, 33, 192, 255} :
          ram = RamImage(registers.pc :> 8
                         @@ wrapping_add16(registers.pc, 1) :> lo
                         @@ wrapping_add16(registers.pc, 2) :> hi
                         @@ wrapping_add16(registers.pc, 3) :> 8
                         @@ wrapping_add16(registers.pc, 4) :> hi
                         @@ wrapping_add16(registers.pc, 5) :> lo
                         @@ DataCells)
    /\ outcome = NotCalled
    /\ pre = History(registers, ram)
    /\ log = << >>
    /\ steps = 0
    /\ alu = AluIdle
    /\ call = NoCall

SpecLdSp == InitLdSp /\ [][Next]_vars

(* step() on INC r16 and DEC r16 with the selected pair over sampled words. *)

IncDecR16Opcodes == {3, 19, 35, 51, 11, 27, 43, 59}

InitIncDecR16 ==
    /\ \E op \in IncDecR16Opcodes, v \in WordSamples, fv \in {0, 80, 240} :
          /\ registers =
                set_register_16bit([DistinctRegisters EXCEPT !.f = fv],
                                   Register16Bit_from_R16(r16_p(DecodedOpcode(op))), v)
          /\ ram = RamImage(0 :> op @@ 1 :> op @@ 2 :> op)
    /\ outcome = NotCalled
    /\ pre = History(registers, ram)
    /\ log = << >>
    /\ steps = 0
    /\ alu = AluIdle
    /\ call = NoCall

SpecIncDecR16 == InitIncDecR16 /\ [][Next]_vars

(* A run of step() calls over a program that repeats one rotate instruction, *)
(* from every value of A and of the flags; call.before keeps the state the   *)
(* run started from.                                                         *)

InitRun ==
    /\ \E av \in Byte, fv \in FlagValues :
          registers = [DistinctRegisters EXCEPT !.a = av, !.f = fv]
    /\ \E op \in RotateAOpcodes :
          ram = RamImage([x \in 0..MaxRunSteps |-> op])
    /\ outcome = NotCalled
    /\ pre = History(registers, ram)
    /\ log = << >>
    /\ steps = 0
    /\ alu = AluIdle
    /\ call = NoCall

RunStep ==
    /\ steps < MaxRunSteps
    /\ outcome.kind # "panicked"
    /\ LET r == step(Machine(registers, ram, << >>))
       IN  /\ registers' = r.registers
           /\ ram' = r.ram
           /\ log' = r.log
           /\ outcome' = r.result
    /\ pre' = History(registers, ram)
    /\ steps' = steps + 1
    /\ call' = [fn |-> "run", args |-> << >>, ret |-> << >>,
                before |-> IF call.fn = "none"
                           THEN [registers |-> registers, ram |-> ram]
                           ELSE call.before,
                count |-> call.count + 1]
    /\ UNCHANGED alu

NextRun == RunStep

SpecRun == InitRun /\ [][NextRun]_vars

(* The ALU functions applied to every pair of bytes and carry-in. *)

InitAlu ==
    /\ registers = Registers_new
    /\ ram = EmptyRam
    /\ outcome = NotCalled
    /\ pre = History(registers, ram)
    /\ log = << >>
    /\ steps = 0
    /\ \E num1 \in Byte, num2 \in Byte, carry \in BOOLEAN :
          alu = [AluIdle EXCEPT !.num1 = num1, !.num2 = num2, !.carry = carry]
    /\ call = NoCall

Call_add_with_carry ==
    /\ alu.fn = "none"
    /\ alu' = [alu EXCEPT !.fn = "add_with_carry",
                          !.out = add_with_carry(alu.num1, alu.num2, alu.carry)]
    /\ UNCHANGED <<registers, ram, outcome, pre, log, steps, call>>

Call_subtract_with_carry ==
    /\ alu.fn = "none"
    /\ alu' = [alu EXCEPT !.fn = "subtract_with_carry",
                          !.out = subtract_with_carry(alu.num1, alu.num2, alu.carry)]
    /\ UNCHANGED <<registers, ram, outcome, pre, log, steps, call>>

NextAlu == Call_add_with_carry \/ Call_subtract_with_carry

SpecAlu == InitAlu /\ [][NextAlu]_vars

\* a direct call of a function: its arguments, what it returned and the
\* state it was called in
Called(fn, args, ret) ==
    [fn |-> fn, args |-> args, ret |-> ret,
     before |-> [registers |-> registers, ram |-> ram], count |-> call.count + 1]

(* The rotations applied to every byte and carry-in. *)

AluCalled(fn, out) == [alu EXCEPT !.fn = fn, !.out = out]

AluCall(fn, out) ==
    /\ alu.fn = "none"
    /\ alu' = AluCalled(fn, out)
    /\ UNCHANGED <<registers, ram, outcome, pre, log, steps, call>>

InitRotate ==
    /\ registers = Registers_new
    /\ ram = EmptyRam
    /\ outcome = NotCalled
    /\ pre = History(registers, ram)
    /\ log = << >>
    /\ steps = 0
    /\ \E num \in Byte, carry \in BOOLEAN :
          alu = [AluIdle EXCEPT !.num1 = num, !.carry = carry]
    /\ call = NoCall

Call_rotate_left == AluCall("rotate_left", rotate_left(alu.num1))

Call_rotate_right == AluCall("rotate_right", rotate_right(alu.num1))

Call_rotate_left_through_carry ==
    AluCall("rotate_left_through_carry", rotate_left_through_carry(alu.num1, alu.carry))

Call_rotate_right_through_carry ==
    AluCall("rotate_right_through_carry", rotate_right_through_carry(alu.num1, alu.carry))

NextRotate ==
    \/ Call_rotate_left
    \/ Call_rotate_right
    \/ Call_rotate_left_through_carry
    \/ Call_rotate_right_through_carry

SpecRotate == InitRotate /\ [][NextRotate]_vars

(* The bitwise functions applied to every pair of bytes. *)

InitBitwise ==
    /\ registers = Registers_new
    /\ ram = EmptyRam
    /\ outcome = NotCalled
    /\ pre = History(registers, ram)
    /\ log = << >>
    /\ steps = 0
    /\ \E num1 \in Byte, num2 \in Byte :
          alu = [AluIdle EXCEPT !.num1 = num1, !.num2 = num2]
    /\ call = NoCall

Call_bitwise_and == AluCall("bitwise_and", bitwise_and(alu.num1, alu.num2))

Call_bitwise_xor == AluCall("bitwise_xor", bitwise_xor(alu.num1, alu.num2))

Call_bitwise_or == AluCall("bitwise_or", bitwise_or(alu.num1, alu.num2))

NextBitwise == Call_bitwise_and \/ Call_bitwise_xor \/ Call_bitwise_or

SpecBitwise == InitBitwise /\ [][NextBitwise]_vars

(* rotate_left fed with its own result, eight times. *)

Chain_rotate_left ==
    /\ call.count < MaxRotations
    /\ call.fn \in {"none", "rotate_left"}
    /\ LET num == IF call.fn = "none" THEN alu.num1 ELSE call.ret
       IN  call' = Called("rotate_left", <<alu.num1>>, rotate_left(num).res)
    /\ UNCHANGED <<registers, ram, outcome, pre, log, steps, alu>>

NextRotateChain == Chain_rotate_left

SpecRotateChain == InitRotate /\ [][NextRotateChain]_vars

(* add_with_carry(a, b, false) and then subtract_with_carry of b from its    *)
(* result, for every pair of bytes.                                          *)

InitAddSub ==
    /\ InitBitwise
    /\ ~alu.carry

Chain_add_with_carry ==
    /\ alu.fn = "none"
    /\ alu' = AluCalled("add_with_carry", add_with_carry(alu.num1, alu.num2, FALSE))
    /\ UNCHANGED <<registers, ram, outcome, pre, log, steps, call>>

Chain_subtract_with_carry ==
    /\ alu.fn = "add_with_carry"
    /\ alu' = AluCalled("add_then_subtract",
                        subtract_with_carry(alu.out.res, alu.num2, FALSE))
    /\ UNCHANGED <<registers, ram, outcome, pre, log, steps, call>>

NextAddSub == Chain_add_with_carry \/ Chain_subtract_with_carry

SpecAddSub == InitAddSub /\ [][NextAddSub]_vars

(* fetch_imm8 called directly, as its test does, at program counters at both *)
(* ends of the address space.                                                *)

PcSamples == {0, 1, 255, 256, 32767, 65534, 65535}

InitFetch ==
    /\ \E pc \in PcSamples, data \in Byte, fv \in {0, 80, 240} :
          /\ registers = [DistinctRegisters EXCEPT !.pc = pc, !.f = fv]
          /\ ram = RamImage(pc :> data @@ ((pc + 1) % 65536) :> BitNot8(data) @@ DataCells)
    /\ outcome = NotCalled
    /\ pre = History(registers, ram)
    /\ log = << >>
    /\ steps = 0
    /\ alu = AluIdle
    /\ call = NoCall

Call_fetch_imm8 ==
    /\ call.count < MaxCalls
    /\ LET r == fetch_imm8(Machine(registers, ram, << >>))
       IN  /\ registers' = r.m.registers
           /\ ram' = r.m.ram
           /\ log' = r.m.log
           /\ call' = Called("fetch_imm8", << >>, r.data)
    /\ UNCHANGED <<outcome, pre, steps, alu>>

Call_fetch_imm16 ==
    /\ call.count < MaxCalls
    /\ LET r == fetch_imm16(Machine(registers, ram, << >>))
       IN  /\ registers' = r.m.registers
           /\ ram' = r.m.ram
           /\ log' = r.m.log
           /\ call' = Called("fetch_imm16", << >>, r.data)
    /\ UNCHANGED <<outcome, pre, steps, alu>>

NextFetch == Call_fetch_imm8 \/ Call_fetch_imm16

SpecFetch == InitFetch /\ [][NextFetch]_vars

(* The decoder applied to every byte. *)

InitDecode ==
    /\ registers = Registers_new
    /\ ram = EmptyRam
    /\ outcome = NotCalled
    /\ pre = History(registers, ram)
    /\ log = << >>
    /\ steps = 0
    /\ alu = AluIdle
    /\ call = NoCall

\* DecodedOpcode::from(value) and the selector lookups on it, before unwrap()
Call_decode ==
    /\ call.fn = "none"
    /\ \E value \in Byte :
          LET decoded == DecodedOpcode(value)
          IN  call' = Called("decode", <<value>>,
                             [decoded |-> decoded,
                              p |-> p(decoded),
                              q |-> q(decoded),
                              r8_y |-> try_from_primitive(R8, decoded.y),
                              r8_z |-> try_from_primitive(R8, decoded.z),
                              r16_p |-> try_from_primitive(R16, p(decoded)),
                              r16mem_p |-> try_from_primitive(R16Mem, p(decoded))])
    /\ UNCHANGED <<registers, ram, outcome, pre, log, steps, alu>>

NextDecode == Call_decode

SpecDecode == InitDecode /\ [][NextDecode]_vars

(* The register file called directly, as its tests do. *)

\* registers.set_flags(&new_flags, mask)
CallSetFlags(news, masks) ==
    /\ call.count < MaxCalls
    /\ \E new_flags \in news, mask \in masks :
          /\ registers' = set_flags(registers, new_flags, mask)
          /\ call' = Called("set_flags", <<new_flags, mask>>, << >>)
    /\ UNCHANGED <<ram, outcome, pre, log, steps, alu>>

\* registers.set_flags_from_alu_res_info(&res_info, mask)
CallSetFlagsFromAluResInfo(infos, masks) ==
    /\ call.count < MaxCalls
    /\ \E res_info \in infos, mask \in masks :
          /\ registers' = set_flags_from_alu_res_info(registers, res_info, mask)
          /\ call' = Called("set_flags_from_alu_res_info", <<res_info, mask>>, << >>)
    /\ UNCHANGED <<ram, outcome, pre, log, steps, alu>>

(* The flag commits from every old flags value with every new value and mask. *)

InitFlags ==
    /\ \E fv \in FlagValues : registers = [DistinctRegisters EXCEPT !.f = fv]
    /\ ram = EmptyRam
    /\ outcome = NotCalled
    /\ pre = History(registers, ram)
    /\ log = << >>
    /\ steps = 0
    /\ alu = AluIdle
    /\ call = NoCall

\* one call per behaviour: every (old flags, new flags, mask) is tried once
Call_set_flags == call.fn = "none" /\ CallSetFlags(FlagValues, FlagValues)

Call_set_flags_from_alu_res_info ==
    call.fn = "none" /\ CallSetFlagsFromAluResInfo(FlagValues, FlagValues)

NextFlags == Call_set_flags \/ Call_set_flags_from_alu_res_info

SpecFlags == InitFlags /\ [][NextFlags]_vars

\* registers.set_register_16bit(register, val) followed by
\* registers.get_register_16bit(register), whose value is kept as ret
CallSetRegister16bit(pairs, vals) ==
    /\ call.count < MaxCalls
    /\ \E register \in pairs, val \in vals :
          LET written == set_register_16bit(registers, register, val)
          IN  /\ registers' = written
              /\ call' = Called("set_register_16bit", <<register, val>>,
                                get_register_16bit(written, register))
    /\ UNCHANGED <<ram, outcome, pre, log, steps, alu>>

(* One write of a register pair, read back, for every pair and 16-bit value. *)

Word == 0..65535

Register16Bit == {"AF", "BC", "DE", "HL", "SP", "PC"}

InitReg16 ==
    /\ registers = [DistinctRegisters EXCEPT !.f = 80]
    /\ ram = EmptyRam
    /\ outcome = NotCalled
    /\ pre = History(registers, ram)
    /\ log = << >>
    /\ steps = 0
    /\ alu = AluIdle
    /\ call = NoCall

Call_set_register_16bit == call.fn = "none" /\ CallSetRegister16bit(Register16Bit, Word)

NextReg16 == Call_set_register_16bit

SpecReg16 == InitReg16 /\ [][NextReg16]_vars

(* A freshly constructed CPU driven by step() and by direct calls of the     *)
(* register file, in any order.                                              *)

RegsPrograms == {<<60, 61, 128>>, <<61, 23, 60>>, <<128, 9, 31>>, <<184, 60, 7>>,
                 <<62, 255, 135>>, <<118, 0, 0>>}

AfSamples == {65535, 4623, 240}

FlagArgs == {240, 80, 144}

InitRegs ==
    /\ registers = Registers_new
    /\ \E prog \in RegsPrograms :
          ram = RamImage(0 :> prog[1] @@ 1 :> prog[2] @@ 2 :> prog[3])
    /\ outcome = NotCalled
    /\ pre = History(registers, ram)
    /\ log = << >>
    /\ steps = 0
    /\ alu = AluIdle
    /\ call = NoCall

Call_set_register_16bit_AF == CallSetRegister16bit({"AF"}, AfSamples)

Call_set_flags_any == CallSetFlags(FlagArgs, FlagArgs)

Call_set_flags_from_alu_res_info_any == CallSetFlagsFromAluResInfo(FlagArgs, FlagArgs)

NextRegs ==
    \/ Step
    \/ Call_set_register_16bit_AF
    \/ Call_set_flags_any
    \/ Call_set_flags_from_alu_res_info_any

SpecRegs == InitRegs /\ [][NextRegs]_vars

---------------------------------------------------------------------------
(* Vocabulary of the properties. *)

\* a step() has been made and this is the state it left
Stepped == outcome.kind # "none"

StepReturned == outcome.kind = "returned"

StepFailed == outcome.kind = "panicked"

\* flag bit of a flags byte or of an AluResultInfo, by arithmetic
ZeroBit(bits) == (bits \div 128) % 2 = 1

SubtractBit(bits) == (bits \div 64) % 2 = 1

HalfCarryBit(bits) == (bits \div 32) % 2 = 1

CarryBit(bits) == (bits \div 16) % 2 = 1

\* no bit outside the four flags
OnlyFlagBits(bits) == bits % 16 = 0 /\ bits \in 0..255

\* every memory cell of the two memories is equal
SameRam(arr1, arr2) ==
    \A x \in (DOMAIN arr1) \cup (DOMAIN arr2) : Ram_read(arr1, x) = Ram_read(arr2, x)

\* fields y and z of the opcode of the last step, and the pairs before it
PreY == (pre.opcode \div 8) % 8

PreZ == pre.opcode % 8

PreHL == pre.registers.h * 256 + pre.registers.l

\* the 8-bit operand index i names before the last step: a register, or memory[HL]
PreOperand(i) ==
    CASE i = 0 -> pre.registers.b
      [] i = 1 -> pre.registers.c
      [] i = 2 -> pre.registers.d
      [] i = 3 -> pre.registers.e
      [] i = 4 -> pre.registers.h
      [] i = 5 -> pre.registers.l
      [] i = 6 -> Ram_read(pre.ram, PreHL)
      [] i = 7 -> pre.registers.a

\* the registers other than A, F and PC are as before the last step
OtherRegistersKept ==
    /\ registers.b = pre.registers.b
    /\ registers.c = pre.registers.c
    /\ registers.d = pre.registers.d
    /\ registers.e = pre.registers.e
    /\ registers.h = pre.registers.h
    /\ registers.l = pre.registers.l
    /\ registers.sp = pre.registers.sp

---------------------------------------------------------------------------
(* C1..C5 : error handling of step(). *)

\* C1: every step() on an opcode with x = 3 (0xC0..0xFF) ends in a failure the
\* caller can observe; it never returns normally as a NOP would.
C1_Block3Reported ==
    (Stepped /\ pre.opcode \in 192..255) => StepFailed

\* C2: whenever a step() fails, every register (PC included), the flags and
\* every memory cell equal their values from before that step().
C2_FailedStepIsAtomic ==
    StepFailed => (registers = pre.registers /\ SameRam(ram, pre.ram))

\* C3: in block 1 (0x40..0x7F) the step fails exactly for HALT (0x76), and
\* HALT fails before any operand is read or written: the only memory access
\* is the opcode fetch, memory and every register but PC are untouched.
C3_HaltFailsAlone ==
    (Stepped /\ pre.opcode \in 64..127) =>
        /\ StepFailed <=> pre.opcode = 118
        /\ pre.opcode = 118 =>
              /\ outcome.payload.msg = "not implemented: HALT"
              /\ log = << Access("fetch", pre.registers.pc) >>
              /\ SameRam(ram, pre.ram)
              /\ registers.a = pre.registers.a
              /\ registers.f = pre.registers.f
              /\ OtherRegistersKept

C3_Witness ==
    /\ StepFailed
    /\ pre.opcode = 118
    /\ PreHL = 8466
    /\ Ram_read(pre.ram, PreHL) = 24

\* C4: in block 0 (0x00..0x3F) the step is reported as unimplemented exactly
\* for 0x18, 0x28, 0x38 (z=0, q=1, p in 1..3) and 0x27, 0x2F, 0x37, 0x3F (z=7,
\* p in 2..3); every other block-0 opcode returns normally.
C4_Block0Unimplemented ==
    (Stepped /\ pre.opcode \in 0..63) =>
        /\ StepFailed <=> pre.opcode \in {24, 40, 56, 39, 47, 55, 63}
        /\ StepFailed => outcome.payload.msg = "not implemented"

C4_Witness ==
    /\ StepFailed
    /\ pre.opcode = 56
    /\ outcome.payload.msg = "not implemented"

\* C5: whenever a step() fails, the reported condition carries the offending
\* opcode byte and the PC at which that opcode was fetched.
C5_FailureCarriesOpcodeAndPc ==
    StepFailed =>
        /\ "opcode" \in DOMAIN outcome.payload
        /\ outcome.payload.opcode = pre.opcode
        /\ "pc" \in DOMAIN outcome.payload
        /\ outcome.payload.pc = pre.registers.pc

---------------------------------------------------------------------------
(* C6, C7 : the adder and the subtractor. *)

\* C6: add_with_carry(a, b, carry) returns (a+b+carry) mod 256 with Carry iff
\* a+b+carry > 255, HalfCarry iff (a&0xF)+(b&0xF)+carry > 0xF, Zero iff the
\* result is 0, and Subtract clear.
C6_AddWithCarry ==
    alu.fn = "add_with_carry" =>
        LET sum == alu.num1 + alu.num2 + AsU8(alu.carry)
        IN  /\ alu.out.res = sum % 256
            /\ CarryBit(alu.out.info) <=> sum > 255
            /\ HalfCarryBit(alu.out.info) <=>
                  (alu.num1 % 16) + (alu.num2 % 16) + AsU8(alu.carry) > 15
            /\ ZeroBit(alu.out.info) <=> alu.out.res = 0
            /\ ~SubtractBit(alu.out.info)
            /\ OnlyFlagBits(alu.out.info)

\* add_with_carry(0xF5, 0xF5, false) = 0xEA with Carry only
C6_Witness ==
    /\ alu.fn = "add_with_carry"
    /\ alu.num1 = 245 /\ alu.num2 = 245 /\ ~alu.carry
    /\ alu.out = AluResult(234, 16)

\* C7: subtract_with_carry(a, b, carry_in) returns (a-b-carry_in) mod 256 with
\* Carry iff a < b+carry_in, HalfCarry iff (a&0xF) < (b&0xF)+carry_in, Zero iff
\* the result is 0, and Subtract set.
C7_SubtractWithCarry ==
    alu.fn = "subtract_with_carry" =>
        LET cin == AsU8(alu.carry)
        IN  /\ alu.out.res = (alu.num1 - alu.num2 - cin) % 256
            /\ CarryBit(alu.out.info) <=> alu.num1 < alu.num2 + cin
            /\ HalfCarryBit(alu.out.info) <=> (alu.num1 % 16) < (alu.num2 % 16) + cin
            /\ ZeroBit(alu.out.info) <=> alu.out.res = 0
            /\ SubtractBit(alu.out.info)
            /\ OnlyFlagBits(alu.out.info)

\* subtract_with_carry(0x10, 0x0F, true) = 0x00 with Zero, Subtract, HalfCarry
C7_Witness ==
    /\ alu.fn = "subtract_with_carry"
    /\ alu.num1 = 16 /\ alu.num2 = 15 /\ alu.carry
    /\ alu.out = AluResult(0, 224)

---------------------------------------------------------------------------
(* C8, C9 : block 2. *)

\* what the ALU returns for operation y on (A, v) with the pre-step Carry
AluOf(y, a, v, cin) ==
    CASE y = 0 -> add_with_carry(a, v, FALSE)
      [] y = 1 -> add_with_carry(a, v, cin)
      [] y = 2 -> subtract_with_carry(a, v, FALSE)
      [] y = 3 -> subtract_with_carry(a, v, cin)
      [] y = 4 -> bitwise_and(a, v)
      [] y = 5 -> bitwise_xor(a, v)
      [] y = 6 -> bitwise_or(a, v)

\* C8: a block-2 step with y in 0..6 sets A to ADD, ADC, SUB, SBC, AND, XOR, OR
\* (by y) of A and the operand r8(z), memory[HL] when z = 6; ADC and SBC take
\* the pre-step Carry as carry-in, ADD and SUB take 0; the four flags become
\* exactly the flags the ALU returns, whatever they were.
C8_Block2Arithmetic ==
    (Stepped /\ pre.opcode \in 128..183) =>
        LET expected == AluOf(PreY, pre.registers.a, PreOperand(PreZ),
                              CarryBit(pre.registers.f))
        IN  /\ StepReturned
            /\ registers.a = expected.res
            /\ registers.f = expected.info

\* ADD A, B with A = 0x18, B = 0x0D gives A = 0x25 and HalfCarry alone, from
\* flags that were all set
C8_Witness ==
    /\ StepReturned
    /\ pre.opcode = 128
    /\ pre.registers.a = 24 /\ pre.registers.b = 13 /\ pre.registers.f = 240
    /\ registers.a = 37 /\ registers.f = 32

\* C9: a CP step (0xB8..0xBF) leaves A, every other 8-bit register, SP and
\* memory unchanged, and sets the four flags to those of SUB with carry-in 0
\* on A and the operand, the pre-step Carry being ignored.
C9_CompareKeepsA ==
    (Stepped /\ pre.opcode \in 184..191) =>
        /\ StepReturned
        /\ registers.a = pre.registers.a
        /\ OtherRegistersKept
        /\ SameRam(ram, pre.ram)
        /\ registers.f =
              subtract_with_carry(pre.registers.a, PreOperand(PreZ), FALSE).info

\* CP A, [HL] with A = 0x18, memory[HL] = 0x18 and Carry set beforehand
C9_Witness ==
    /\ StepReturned
    /\ pre.opcode = 190
    /\ pre.registers.a = 24 /\ PreOperand(6) = 24 /\ CarryBit(pre.registers.f)
    /\ registers.a = 24 /\ registers.f = 192

---------------------------------------------------------------------------
(* C10 : ADD HL, r16. *)

\* the pair r16(p) before the last step
PrePair(i) ==
    CASE i = 0 -> pre.registers.b * 256 + pre.registers.c
      [] i = 1 -> pre.registers.d * 256 + pre.registers.e
      [] i = 2 -> PreHL
      [] i = 3 -> pre.registers.sp

\* C10: ADD HL, r16(p) with pre-step h = HL and r = r16 leaves HL = (h+r) mod
\* 65536, Carry iff h+r > 0xFFFF, HalfCarry iff (h&0xFFF)+(r&0xFFF) > 0xFFF,
\* Subtract clear and Zero as before the step.
C10_AddHl ==
    (Stepped /\ pre.opcode \in {9, 25, 41, 57}) =>
        LET hv == PreHL
            rv == PrePair(pre.opcode \div 16)
        IN  /\ StepReturned
            /\ registers.h * 256 + registers.l = (hv + rv) % 65536
            /\ CarryBit(registers.f) <=> hv + rv > 65535
            /\ HalfCarryBit(registers.f) <=> (hv % 4096) + (rv % 4096) > 4095
            /\ ~SubtractBit(registers.f)
            /\ ZeroBit(registers.f) <=> ZeroBit(pre.registers.f)
            /\ OnlyFlagBits(registers.f)

\* ADD HL, BC with HL = 0x0FFF, BC = 0x0001: the half carry comes from the
\* carry out of the low byte; Zero stays set
C10_Witness ==
    /\ StepReturned
    /\ pre.opcode = 9
    /\ PreHL = 4095 /\ PrePair(0) = 1 /\ pre.registers.f = 240
    /\ registers.h = 16 /\ registers.l = 0 /\ registers.f = 160

---------------------------------------------------------------------------
(* C11 : INC r8 / DEC r8. *)

\* the 8-bit operand index i names after the last step; memory[HL] is taken at
\* the HL of before the step
PostOperand(i) ==
    CASE i = 0 -> registers.b
      [] i = 1 -> registers.c
      [] i = 2 -> registers.d
      [] i = 3 -> registers.e
      [] i = 4 -> registers.h
      [] i = 5 -> registers.l
      [] i = 6 -> Ram_read(ram, PreHL)
      [] i = 7 -> registers.a

\* C11: INC r8(y) (z = 4) replaces the target v by (v+1) mod 256 with Zero iff
\* the result is 0, Subtract clear, HalfCarry iff (v & 0xF) = 0xF; DEC r8(y)
\* (z = 5) replaces it by (v-1) mod 256 with Zero iff the result is 0, Subtract
\* set, HalfCarry iff (v & 0xF) = 0.  Carry keeps its pre-step value, and for
\* y = 6 the target is the memory byte at HL while H and L are unchanged.
C11_IncDecR8 ==
    (Stepped /\ pre.opcode \in 0..63 /\ PreZ \in {4, 5}) =>
        LET v == PreOperand(PreY)
            inc == PreZ = 4
            res == IF inc THEN (v + 1) % 256 ELSE (v + 255) % 256
        IN  /\ StepReturned
            /\ PostOperand(PreY) = res
            /\ ZeroBit(registers.f) <=> res = 0
            /\ SubtractBit(registers.f) <=> ~inc
            /\ HalfCarryBit(registers.f) <=> (IF inc THEN v % 16 = 15 ELSE v % 16 = 0)
            /\ CarryBit(registers.f) <=> CarryBit(pre.registers.f)
            /\ OnlyFlagBits(registers.f)
            /\ PreY = 6 => (registers.h = pre.registers.h /\ registers.l = pre.registers.l)

\* INC [HL] on the byte 0xFF with Carry clear: the byte becomes 0x00, Zero and
\* HalfCarry are set and Carry stays clear
C11_Witness ==
    /\ StepReturned
    /\ pre.opcode = 52
    /\ PreOperand(6) = 255 /\ pre.registers.f = 0
    /\ Ram_read(ram, PreHL) = 0 /\ registers.f = 160
    /\ registers.h = pre.registers.h /\ registers.l = pre.registers.l

---------------------------------------------------------------------------
(* C12 : masked flag commits. *)

FlagBits == {128, 64, 32, 16}

\* bit of weight w of a byte
BitOf(bits, w) == (bits \div w) % 2 = 1

\* C12: after set_flags(new, mask), and after set_flags_from_alu_res_info(info,
\* mask), every flag inside mask equals the corresponding bit of new / info and
\* every flag outside mask is exactly its old value.
C12_MaskedFlagCommit ==
    call.fn \in {"set_flags", "set_flags_from_alu_res_info"} =>
        /\ \A w \in FlagBits :
              BitOf(registers.f, w) <=>
                  (IF BitOf(call.args[2], w) THEN BitOf(call.args[1], w)
                   ELSE BitOf(call.before.registers.f, w))
        /\ OnlyFlagBits(registers.f)

\* set_flags(all four, {Carry}) on Zero|Subtract|HalfCarry sets Carry and keeps
\* the three others
C12_Witness ==
    /\ call.fn = "set_flags"
    /\ call.args = <<240, 16>>
    /\ call.before.registers.f = 224
    /\ registers.f = 240

---------------------------------------------------------------------------
(* C13: in every state reached from a freshly constructed CPU by step()      *)
(* calls and register-file operations (AF writes of any value, set_flags,    *)
(* set_flags_from_alu_res_info) the low nibble of the flags register is 0    *)
(* and reading AF gives a value whose bits 3..0 are 0.                       *)
C13_FlagsLowNibbleZero ==
    /\ registers.f % 16 = 0
    /\ get_register_16bit(registers, "AF") % 16 = 0

\* AF was written with 0xFFFF after a step and an earlier call
C13_Witness ==
    /\ steps >= 1
    /\ call.count >= 2
    /\ call.fn = "set_register_16bit"
    /\ call.args = <<"AF", 65535>>
    /\ registers.a = 255
    /\ registers.f = 240

---------------------------------------------------------------------------
\* the fields of the register file that make up a pair
PairFields(register) ==
    CASE register = "AF" -> {"a", "f"}
      [] register = "BC" -> {"b", "c"}
      [] register = "DE" -> {"d", "e"}
      [] register = "HL" -> {"h", "l"}
      [] register = "SP" -> {"sp"}
      [] register = "PC" -> {"pc"}

(* C14: for every 16-bit v, writing AF = v then reading AF gives v & 0xFFF0  *)
(* (A = v >> 8, flags = low byte & 0xF0); writing BC, DE or HL = v puts      *)
(* v >> 8 in the first-named register and v & 0xFF in the second and reads   *)
(* back v; writing SP or PC = v reads back v; a write to one pair changes no *)
(* register outside that pair.                                               *)
C14_PairWriteReadBack ==
    call.fn = "set_register_16bit" =>
        LET register == call.args[1]
            v == call.args[2]
            hi == v \div 256
            lo == v % 256
            old == call.before.registers
        IN  /\ register = "AF" =>
                  /\ call.ret = v - (v % 16)
                  /\ registers.a = hi
                  /\ registers.f = lo - (lo % 16)
            /\ register = "BC" => call.ret = v /\ registers.b = hi /\ registers.c = lo
            /\ register = "DE" => call.ret = v /\ registers.d = hi /\ registers.e = lo
            /\ register = "HL" => call.ret = v /\ registers.h = hi /\ registers.l = lo
            /\ register = "SP" => call.ret = v /\ registers.sp = v
            /\ register = "PC" => call.ret = v /\ registers.pc = v
            /\ \A field \in (DOMAIN registers) \ PairFields(register) :
                  registers[field] = old[field]

\* AF written with 0x12FF reads back 0x12F0; B..L, SP and PC keep their bytes
C14_Witness ==
    /\ call.fn = "set_register_16bit"
    /\ call.args = <<"AF", 4863>>
    /\ call.ret = 4848
    /\ call.before.registers.f = 80
    /\ registers.b = 17

---------------------------------------------------------------------------
(* C15, C16, C17 : rotations and bitwise functions of the ALU. *)

\* bit i (0 = least significant) of a byte is set
BitAt(num, i) == (num \div (2 ^ i)) % 2 = 1

\* the ALU result carries no Zero, Subtract or HalfCarry
RotateFlagsClear(info) ==
    /\ ~ZeroBit(info)
    /\ ~SubtractBit(info)
    /\ ~HalfCarryBit(info)
    /\ OnlyFlagBits(info)

\* C15: rotate_left(n) and rotate_right(n) return the 8-bit circular rotation
\* of n by one bit, Carry = bit 7 of n for left and bit 0 of n for right, and
\* Zero, Subtract, HalfCarry false whatever the result (also for n = 0).
C15_Rotate ==
    /\ alu.fn = "rotate_left" =>
          /\ \A i \in 0..7 : BitAt(alu.out.res, (i + 1) % 8) <=> BitAt(alu.num1, i)
          /\ alu.out.res \in Byte
          /\ CarryBit(alu.out.info) <=> BitAt(alu.num1, 7)
          /\ RotateFlagsClear(alu.out.info)
    /\ alu.fn = "rotate_right" =>
          /\ \A i \in 0..7 : BitAt(alu.out.res, i) <=> BitAt(alu.num1, (i + 1) % 8)
          /\ alu.out.res \in Byte
          /\ CarryBit(alu.out.info) <=> BitAt(alu.num1, 0)
          /\ RotateFlagsClear(alu.out.info)

\* rotate_left(0x00) = 0x00 with no flag at all
C15_Witness ==
    /\ alu.fn = "rotate_left"
    /\ alu.num1 = 0
    /\ alu.out = AluResult(0, 0)

\* C16: rotate_left_through_carry(n, c) returns ((2n) mod 256) + c with
\* Carry = bit 7 of n; rotate_right_through_carry(n, c) returns
\* (n div 2) + 128c with Carry = bit 0 of n; Zero, Subtract and HalfCarry are
\* false in both, even when the result is 0.
C16_RotateThroughCarry ==
    /\ alu.fn = "rotate_left_through_carry" =>
          /\ alu.out.res = ((2 * alu.num1) % 256) + AsU8(alu.carry)
          /\ CarryBit(alu.out.info) <=> alu.num1 >= 128
          /\ RotateFlagsClear(alu.out.info)
    /\ alu.fn = "rotate_right_through_carry" =>
          /\ alu.out.res = (alu.num1 \div 2) + (128 * AsU8(alu.carry))
          /\ CarryBit(alu.out.info) <=> alu.num1 % 2 = 1
          /\ RotateFlagsClear(alu.out.info)

\* rotate_right_through_carry(0x01, false) = 0x00 with Carry only
C16_Witness ==
    /\ alu.fn = "rotate_right_through_carry"
    /\ alu.num1 = 1 /\ ~alu.carry
    /\ alu.out = AluResult(0, 16)

\* C17: bitwise_and, bitwise_xor and bitwise_or return a AND b, a XOR b,
\* a OR b with Zero iff the result is 0, Subtract and Carry false; HalfCarry
\* is always true for bitwise_and and always false for the other two.
C17_Bitwise ==
    alu.fn \in {"bitwise_and", "bitwise_xor", "bitwise_or"} =>
        /\ alu.out.res \in Byte
        /\ \A i \in 0..7 :
              BitAt(alu.out.res, i) <=>
                  CASE alu.fn = "bitwise_and" -> BitAt(alu.num1, i) /\ BitAt(alu.num2, i)
                    [] alu.fn = "bitwise_xor" -> BitAt(alu.num1, i) # BitAt(alu.num2, i)
                    [] alu.fn = "bitwise_or" -> BitAt(alu.num1, i) \/ BitAt(alu.num2, i)
        /\ ZeroBit(alu.out.info) <=> alu.out.res = 0
        /\ ~SubtractBit(alu.out.info)
        /\ ~CarryBit(alu.out.info)
        /\ HalfCarryBit(alu.out.info) <=> alu.fn = "bitwise_and"
        /\ OnlyFlagBits(alu.out.info)

\* bitwise_and(0xF0, 0x0F) = 0x00 with Zero and HalfCarry
C17_Witness ==
    /\ alu.fn = "bitwise_and"
    /\ alu.num1 = 240 /\ alu.num2 = 15
    /\ alu.out = AluResult(0, 160)

---------------------------------------------------------------------------
(* C18, C19 : round trips of the ALU. *)

\* C18: for all bytes a, b: subtract_with_carry(add_with_carry(a, b, 0).result,
\* b, 0).result = a, also when the addition wrapped past 255.
C18_SubtractUndoesAdd ==
    alu.fn = "add_then_subtract" => alu.out.res = alu.num1

\* 200 + 100 wraps to 44, and 44 - 100 wraps back to 200 with a borrow
C18_Witness ==
    /\ alu.fn = "add_then_subtract"
    /\ alu.num1 = 200 /\ alu.num2 = 100
    /\ alu.out.res = 200
    /\ CarryBit(alu.out.info)

\* C19: rotate_left applied eight times in succession to a byte, each result
\* fed into the next call, returns the original byte.
C19_EightRotations ==
    (call.fn = "rotate_left" /\ call.count = 8) => call.ret = call.args[1]

\* 0x81 after eight rotations is 0x81 again
C19_Witness ==
    /\ call.fn = "rotate_left"
    /\ call.count = 8
    /\ call.args = <<129>>
    /\ call.ret = 129

---------------------------------------------------------------------------
(* C20: fetch_imm8 returns the memory byte at the current PC and then sets   *)
(* PC to (PC + 1) mod 65536, so at PC = 0xFFFF the next PC is 0x0000; it     *)
(* changes no other register, no flag and no memory cell.                    *)
C20_FetchImm8 ==
    call.fn = "fetch_imm8" =>
        LET old == call.before.registers
            cells == call.before.ram
        IN  /\ call.ret = (IF old.pc \in DOMAIN cells THEN cells[old.pc] ELSE 0)
            /\ registers.pc = (old.pc + 1) % 65536
            /\ \A field \in (DOMAIN registers) \ {"pc"} : registers[field] = old[field]
            /\ SameRam(ram, cells)

\* a fetch of 0x42 at PC = 0xFFFF leaves PC = 0x0000
C20_Witness ==
    /\ call.fn = "fetch_imm8"
    /\ call.before.registers.pc = 65535
    /\ call.ret = 66
    /\ registers.pc = 0
    /\ registers.f = 240

---------------------------------------------------------------------------
\* the byte a memory holds at an address (0 where nothing was written)
CellOf(cells, addr) == IF addr \in DOMAIN cells THEN cells[addr] ELSE 0

(* C21: fetch_imm16 returns low + 256*high where low is the byte at the      *)
(* pre-call PC and high is the byte at (PC + 1) mod 65536 (little-endian),   *)
(* and leaves PC advanced by 2 modulo 65536.                                 *)
C21_FetchImm16 ==
    call.fn = "fetch_imm16" =>
        LET old == call.before.registers
            cells == call.before.ram
        IN  /\ call.ret = CellOf(cells, old.pc) + 256 * CellOf(cells, (old.pc + 1) % 65536)
            /\ registers.pc = (old.pc + 2) % 65536

\* at PC = 0xFFFF the bytes 0x34 (at 0xFFFF) and 0xCB (at 0x0000) give 0xCB34
\* and PC = 0x0001
C21_Witness ==
    /\ call.fn = "fetch_imm16"
    /\ call.before.registers.pc = 65535
    /\ CellOf(call.before.ram, 65535) = 52
    /\ CellOf(call.before.ram, 0) = 203
    /\ call.ret = 52020
    /\ registers.pc = 1

---------------------------------------------------------------------------
(* Frame vocabulary of the instruction claims. *)

\* the register-file fields the 8-bit operand index i names (none for memory[HL])
R8Fields(i) ==
    CASE i = 0 -> {"b"}
      [] i = 1 -> {"c"}
      [] i = 2 -> {"d"}
      [] i = 3 -> {"e"}
      [] i = 4 -> {"h"}
      [] i = 5 -> {"l"}
      [] i = 6 -> {}
      [] i = 7 -> {"a"}

\* the memory cells the 8-bit operand index i names (memory[HL] for 6 only)
R8Cells(i) == IF i = 6 THEN {PreHL} ELSE {}

\* every register outside the given fields is as before the last step
RegistersKeptExcept(fields) ==
    \A field \in (DOMAIN registers) \ fields : registers[field] = pre.registers[field]

\* every memory cell outside the given addresses is as before the last step
RamKeptExcept(addrs) ==
    \A x \in ((DOMAIN ram) \cup (DOMAIN pre.ram)) \ addrs :
        CellOf(ram, x) = CellOf(pre.ram, x)

\* the program counter moved by n from its value before the last step
PcAdvancedBy(n) == registers.pc = (pre.registers.pc + n) % 65536

\* the byte at offset k after the opcode of the last step
PreImm(k) == CellOf(pre.ram, (pre.registers.pc + k) % 65536)

(* C22: for every LD r8(y), imm8 opcode (x = 0, z = 6) one step() writes the *)
(* byte following the opcode into r8(y), or into memory[HL] when y = 6, and  *)
(* advances PC by 2; flags and every other register are unchanged.  In       *)
(* particular 0x3E 0x42 on a fresh CPU leaves A = 0x42 and PC = 2.           *)
C22_LdR8Imm8 ==
    (Stepped /\ pre.opcode \in 0..63 /\ PreZ = 6) =>
        /\ StepReturned
        /\ PostOperand(PreY) = PreImm(1)
        /\ PcAdvancedBy(2)
        /\ RegistersKeptExcept(R8Fields(PreY) \cup {"pc"})
        /\ RamKeptExcept(R8Cells(PreY))
        /\ (pre.registers = Registers_new /\ pre.opcode = 62 /\ PreImm(1) = 66) =>
              (registers.a = 66 /\ registers.pc = 2)

\* 0x3E 0x42 on a fresh CPU: A = 0x42, PC = 2
C22_Witness ==
    /\ StepReturned
    /\ pre.registers = Registers_new
    /\ pre.opcode = 62
    /\ PreImm(1) = 66
    /\ registers.a = 66
    /\ registers.pc = 2
    /\ registers.f = 0

---------------------------------------------------------------------------
(* C23: for every block-1 opcode (0x40..0x7F) other than 0x76 the            *)
(* destination r8(y), or memory[HL] when y = 6, receives the pre-step value  *)
(* of the source r8(z), or of memory[HL] when z = 6 (HL taken before the     *)
(* move, also for LD H,[HL] and LD L,[HL]); the flags and every register and *)
(* memory cell other than the destination and PC are unchanged.              *)
C23_Block1Copy ==
    (Stepped /\ pre.opcode \in 64..127 /\ pre.opcode # 118) =>
        /\ StepReturned
        /\ PostOperand(PreY) = PreOperand(PreZ)
        /\ registers.f = pre.registers.f
        /\ RegistersKeptExcept(R8Fields(PreY) \cup {"pc"})
        /\ RamKeptExcept(R8Cells(PreY))

\* LD H,[HL] with HL = 0x2112 pointing at 0x18: H becomes 0x18, L stays 0x12
C23_Witness ==
    /\ StepReturned
    /\ pre.opcode = 102
    /\ PreHL = 8466
    /\ PreOperand(6) = 24
    /\ registers.h = 24
    /\ registers.l = 18
    /\ pre.registers.f = 240 /\ registers.f = 240

---------------------------------------------------------------------------
(* C24: after RLCA (0x07), RRCA (0x0F), RLA (0x17) or RRA (0x1F), A holds    *)
(* the rotate result, Carry holds the bit rotated out of A, and Zero,        *)
(* Subtract and HalfCarry are false whatever they were and even when A       *)
(* becomes 0; RLA and RRA rotate the pre-step Carry into the vacated bit,    *)
(* RLCA and RRCA ignore the pre-step Carry.                                  *)
C24_RotateA ==
    (Stepped /\ pre.opcode \in {7, 15, 23, 31}) =>
        LET a == pre.registers.a
            cin == IF CarryBit(pre.registers.f) THEN 1 ELSE 0
            left == pre.opcode \in {7, 23}
            fill == IF pre.opcode \in {23, 31} THEN cin
                    ELSE IF left THEN a \div 128 ELSE a % 2
            res == IF left THEN ((2 * a) % 256) + fill ELSE (a \div 2) + (128 * fill)
        IN  /\ StepReturned
            /\ registers.a = res
            /\ CarryBit(registers.f) <=> (IF left THEN a >= 128 ELSE a % 2 = 1)
            /\ RotateFlagsClear(registers.f)

\* RLA on A = 0x80 with Zero, Subtract, HalfCarry set and Carry clear: A = 0x00
\* and the flags are Carry alone
C24_Witness ==
    /\ StepReturned
    /\ pre.opcode = 23
    /\ pre.registers.a = 128 /\ pre.registers.f = 224
    /\ registers.a = 0 /\ registers.f = 16

---------------------------------------------------------------------------
\* the address the selector r16mem(p) names before the last step
PreR16Mem(i) ==
    CASE i = 0 -> pre.registers.b * 256 + pre.registers.c
      [] i = 1 -> pre.registers.d * 256 + pre.registers.e
      [] i = 2 -> PreHL
      [] i = 3 -> PreHL

(* C25: for LD [r16mem(p)], A and LD A, [r16mem(p)] (x = 0, z = 2) the       *)
(* memory access uses the address the selected pair held before the          *)
(* instruction; for the HL-inc / HL-dec selectors HL becomes (old HL + 1)    *)
(* mod 65536 / (old HL - 1) mod 65536 only after the store or load, for the  *)
(* BC and DE selectors no pair changes; the flags are unchanged.             *)
C25_R16MemAccess ==
    (Stepped /\ pre.opcode \in 0..63 /\ PreZ = 2) =>
        LET sel == PreY \div 2
            store == PreY % 2 = 0
            addr == PreR16Mem(sel)
            hl == registers.h * 256 + registers.l
        IN  /\ StepReturned
            /\ log = << Access("fetch", pre.registers.pc),
                        Access(IF store THEN "write" ELSE "read", addr) >>
            /\ store => /\ CellOf(ram, addr) = pre.registers.a
                        /\ RamKeptExcept({addr})
                        /\ registers.a = pre.registers.a
            /\ ~store => /\ registers.a = CellOf(pre.ram, addr)
                         /\ RamKeptExcept({})
            /\ sel = 2 => hl = (PreHL + 1) % 65536
            /\ sel = 3 => hl = (PreHL + 65535) % 65536
            /\ sel \in {0, 1} => hl = PreHL
            /\ RegistersKeptExcept({"a", "h", "l", "pc"})
            /\ registers.f = pre.registers.f

\* LD [HL-], A with HL = 0x0000: the store goes to 0x0000 and HL becomes 0xFFFF
C25_Witness ==
    /\ StepReturned
    /\ pre.opcode = 50
    /\ PreHL = 0 /\ pre.registers.a = 90
    /\ CellOf(pre.ram, 0) = 11 /\ CellOf(ram, 0) = 90
    /\ CellOf(ram, 65535) = 44
    /\ registers.h = 255 /\ registers.l = 255

---------------------------------------------------------------------------
(* C26: LD [imm16], SP (opcode 0x08) with immediate address nn stores        *)
(* SP & 0xFF at nn and SP >> 8 at (nn + 1) mod 65536, advances PC by 3, and  *)
(* leaves SP, all other registers and the flags unchanged.                   *)
C26_LdImm16Sp ==
    (Stepped /\ pre.opcode = 8) =>
        LET nn == PreImm(1) + 256 * PreImm(2)
            next == (nn + 1) % 65536
            sp == pre.registers.sp
        IN  /\ StepReturned
            /\ CellOf(ram, nn) = sp % 256
            /\ CellOf(ram, next) = sp \div 256
            /\ RamKeptExcept({nn, next})
            /\ PcAdvancedBy(3)
            /\ RegistersKeptExcept({"pc"})

\* SP = 0x1234 stored at 0xFFFF: 0x34 at 0xFFFF and 0x12 at 0x0000
C26_Witness ==
    /\ StepReturned
    /\ pre.opcode = 8
    /\ pre.registers.pc = 256
    /\ PreImm(1) = 255 /\ PreImm(2) = 255
    /\ pre.registers.sp = 4660
    /\ CellOf(ram, 65535) = 52 /\ CellOf(ram, 0) = 18
    /\ registers.sp = 4660 /\ registers.pc = 259

---------------------------------------------------------------------------
\* the pair r16(p) after the last step
PostPair(i) ==
    CASE i = 0 -> registers.b * 256 + registers.c
      [] i = 1 -> registers.d * 256 + registers.e
      [] i = 2 -> registers.h * 256 + registers.l
      [] i = 3 -> registers.sp

\* the register-file fields of the pair r16(p)
R16Fields(i) ==
    CASE i = 0 -> {"b", "c"}
      [] i = 1 -> {"d", "e"}
      [] i = 2 -> {"h", "l"}
      [] i = 3 -> {"sp"}

(* C27: INC r16(p) (x = 0, z = 3, q = 0) and DEC r16(p) (q = 1) on BC, DE,   *)
(* HL or SP set the pair to (v + 1) mod 65536 and (v - 1) mod 65536          *)
(* (0xFFFF -> 0x0000, 0x0000 -> 0xFFFF) and leave all four flags and every   *)
(* other register unchanged.                                                 *)
C27_IncDecR16 ==
    (Stepped /\ pre.opcode \in 0..63 /\ PreZ = 3) =>
        LET sel == PreY \div 2
            v == PrePair(sel)
        IN  /\ StepReturned
            /\ PostPair(sel) = (IF PreY % 2 = 0 THEN (v + 1) % 65536 ELSE (v + 65535) % 65536)
            /\ registers.f = pre.registers.f
            /\ RegistersKeptExcept(R16Fields(sel) \cup {"pc"})
            /\ RamKeptExcept({})

\* DEC BC on BC = 0x0000 with HalfCarry and Carry set: BC = 0xFFFF, flags kept
C27_Witness ==
    /\ StepReturned
    /\ pre.opcode = 11
    /\ PrePair(0) = 0 /\ pre.registers.f = 80
    /\ registers.b = 255 /\ registers.c = 255
    /\ registers.f = 80

---------------------------------------------------------------------------
(* C28: decoding is total: for every byte v the decoder yields x = v div 64, *)
(* y = (v div 8) mod 8, z = v mod 8, p = y div 2, q = y mod 2 (so            *)
(* 64x + 8y + z = v and 2p + q = y), and the selector lookups r8(y), r8(z),  *)
(* r16(p) and r16mem(p) are defined for every byte.                          *)
C28_DecodeTotal ==
    call.fn = "decode" =>
        LET v == call.args[1]
            d == call.ret.decoded
        IN  /\ d.x = v \div 64
            /\ d.y = (v \div 8) % 8
            /\ d.z = v % 8
            /\ call.ret.p = d.y \div 2
            /\ call.ret.q = d.y % 2
            /\ 64 * d.x + 8 * d.y + d.z = v
            /\ 2 * call.ret.p + call.ret.q = d.y
            /\ call.ret.r8_y.ok /\ call.ret.r8_z.ok
            /\ call.ret.r16_p.ok /\ call.ret.r16mem_p.ok

\* 0xFF decodes to x = 3, y = 7, z = 7, p = 3, q = 1 : A, A, SP, HL-
C28_Witness ==
    /\ call.fn = "decode"
    /\ call.args = <<255>>
    /\ call.ret.decoded = [x |-> 3, y |-> 7, z |-> 7]
    /\ call.ret.p = 3 /\ call.ret.q = 1
    /\ call.ret.r8_y = [ok |-> TRUE, val |-> "A"]
    /\ call.ret.r16_p = [ok |-> TRUE, val |-> "SP"]
    /\ call.ret.r16mem_p = [ok |-> TRUE, val |-> "HLDec"]

---------------------------------------------------------------------------
\* an access of the log that is not an opcode or immediate fetch
IsDataAccess(entry) == entry.kind # "fetch"

\* the reads and writes of data the last step made, in order
DataAccesses == SelectSeq(log, IsDataAccess)

\* the last step ran a handler that takes an r8 operand
R8Handler ==
    /\ Stepped
    /\ \/ pre.opcode \in 0..63 /\ PreZ \in {4, 5, 6}
       \/ pre.opcode \in 64..127 /\ pre.opcode # 118
       \/ pre.opcode \in 128..191

\* the index of the r8 operand the handler reads (8 when it reads none)
R8SourceIndex ==
    IF pre.opcode \in 0..63 THEN (IF PreZ = 6 THEN 8 ELSE PreY) ELSE PreZ

\* the index of the r8 operand the handler writes (8 when it writes none)
R8DestIndex == IF pre.opcode \in 128..191 THEN 8 ELSE PreY

\* the register name an operand index selects
R8Names == [i \in {0, 1, 2, 3, 4, 5, 7} |->
              CASE i = 0 -> "B" [] i = 1 -> "C" [] i = 2 -> "D" [] i = 3 -> "E"
                [] i = 4 -> "H" [] i = 5 -> "L" [] i = 7 -> "A"]

(* C29: the 8-bit selector index 6 is the IndirectHL sentinel and never      *)
(* collapses into a real register: indices 0,1,2,3,4,5,7 select              *)
(* B,C,D,E,H,L,A, and in every handler taking an r8 operand (INC/DEC r8,     *)
(* LD r8,imm8, block 1, block 2) the operand is memory[HL] exactly when the  *)
(* index is 6, while for any other index only the named register is read or *)
(* written and memory is not touched for that operand.                       *)
C29_HlSentinel ==
    /\ \A i \in 0..7 :
          LET conv == Register8Bit_try_from(try_from_primitive(R8, i).val)
          IN  IF i = 6 THEN ~conv.ok ELSE conv.ok /\ conv.reg = R8Names[i]
    /\ R8Handler =>
          /\ StepReturned
          /\ DataAccesses =
                (IF R8SourceIndex = 6 THEN << Access("read", PreHL) >> ELSE << >>)
                \o (IF R8DestIndex = 6 THEN << Access("write", PreHL) >> ELSE << >>)
          /\ RamKeptExcept(IF R8DestIndex = 6 THEN {PreHL} ELSE {})
          /\ RegistersKeptExcept(
                (IF R8DestIndex \in {0, 1, 2, 3, 4, 5, 7} THEN R8Fields(R8DestIndex) ELSE {})
                \cup (IF pre.opcode \in 128..191 THEN {"a"} ELSE {})
                \cup {"f", "pc"})

\* LD [HL], B with HL = 0x2112: one write at 0x2112, H and L keep their bytes
C29_Witness ==
    /\ StepReturned
    /\ pre.opcode = 112
    /\ PreHL = 8466
    /\ log = << Access("fetch", pre.registers.pc), Access("write", 8466) >>
    /\ CellOf(ram, 8466) = pre.registers.b
    /\ registers.h = 33 /\ registers.l = 18

---------------------------------------------------------------------------
\* an access of the log that fetches an opcode or immediate byte
IsFetch(entry) == entry.kind = "fetch"

\* the length in bytes of the instruction the last step ran (blocks 0..2)
PreLength ==
    IF pre.opcode \in 0..63 /\ PreZ = 1 /\ PreY % 2 = 0 THEN 3
    ELSE IF pre.opcode = 8 THEN 3
    ELSE IF pre.opcode \in 0..63 /\ PreZ = 6 THEN 2
    ELSE 1

(* C30: every step() on an opcode of blocks 0..2 that completes normally     *)
(* advances PC by exactly the instruction length modulo 65536: 3 for         *)
(* LD r16,imm16 and LD [imm16],SP, 2 for LD r8,imm8 and 1 for every other    *)
(* opcode; immediate bytes are read from the addresses immediately following *)
(* the opcode, and no instruction writes PC in any other way.                *)
C30_PcAdvance ==
    (StepReturned /\ pre.opcode \in 0..191) =>
        /\ PcAdvancedBy(PreLength)
        /\ SelectSeq(log, IsFetch) =
              [k \in 1..PreLength |-> Access("fetch", (pre.registers.pc + k - 1) % 65536)]

\* LD SP, imm16 at PC = 0xFFFF: bytes fetched at 0xFFFF, 0x0000, 0x0001, PC = 2
C30_Witness ==
    /\ StepReturned
    /\ pre.opcode = 49
    /\ pre.registers.pc = 65535
    /\ log = << Access("fetch", 65535), Access("fetch", 0), Access("fetch", 1) >>
    /\ registers.pc = 2
    /\ registers.sp = 4660

---------------------------------------------------------------------------
\* an access of the log that writes a memory cell
IsWrite(entry) == entry.kind = "write"

\* the memory writes the last step made, in order
WriteAccesses == SelectSeq(log, IsWrite)

\* the addresses the last step wrote
WrittenCells == {WriteAccesses[k].addr : k \in 1..Len(WriteAccesses)}

\* the last step ran an instruction that stores one byte
StoresOneCell ==
    \/ pre.opcode \in 0..63 /\ PreZ = 2 /\ PreY % 2 = 0
    \/ pre.opcode \in 0..63 /\ PreZ \in {4, 5, 6} /\ PreY = 6
    \/ pre.opcode \in 64..127 /\ pre.opcode # 118 /\ PreY = 6

(* C31: a step() writes memory only when it executes LD [r16mem],A,          *)
(* INC [HL], DEC [HL], LD [HL],imm8 or LD [HL],r8 (exactly one cell) or      *)
(* LD [imm16],SP (exactly two cells); every other opcode, including all      *)
(* block-2 opcodes and every load into a register, leaves every memory cell  *)
(* unchanged.                                                                *)
C31_MemoryWrites ==
    Stepped =>
        /\ Len(WriteAccesses) =
              (IF StoresOneCell THEN 1 ELSE IF pre.opcode = 8 THEN 2 ELSE 0)
        /\ Cardinality(WrittenCells) = Len(WriteAccesses)
        /\ RamKeptExcept(WrittenCells)
        /\ (~StoresOneCell /\ pre.opcode # 8) => RamKeptExcept({})

\* ADD A, [HL] reads the cell at HL = 0x2112 and writes nothing
C31_Witness ==
    /\ StepReturned
    /\ pre.opcode = 134
    /\ PreHL = 8466
    /\ log = << Access("fetch", pre.registers.pc), Access("read", 8466) >>
    /\ pre.registers.a = 245 /\ registers.a = 13
    /\ RamKeptExcept({})

---------------------------------------------------------------------------
\* the opcode the run repeats
RunOpcode == CellOf(call.before.ram, 0)

(* C32: starting from any A and any Carry flag, nine consecutive RLA steps   *)
(* (0x17), and likewise nine consecutive RRA steps (0x1F), restore both A    *)
(* and Carry to their starting values; eight consecutive RLCA steps (0x07),  *)
(* and likewise eight consecutive RRCA steps (0x0F), restore A.              *)
C32_RotateRuns ==
    call.fn = "run" =>
        /\ (steps = 9 /\ RunOpcode \in {23, 31}) =>
              /\ StepReturned
              /\ registers.a = call.before.registers.a
              /\ CarryBit(registers.f) <=> CarryBit(call.before.registers.f)
        /\ (steps = 8 /\ RunOpcode \in {7, 15}) =>
              /\ StepReturned
              /\ registers.a = call.before.registers.a

\* nine RLA steps from A = 0x81 with Carry set (and Zero set) end with
\* A = 0x81 and Carry alone
C32_Witness ==
    /\ call.fn = "run"
    /\ steps = 9
    /\ RunOpcode = 23
    /\ call.before.registers.a = 129 /\ call.before.registers.f = 144
    /\ registers.a = 129 /\ registers.f = 16
    /\ registers.pc = 9

=============================================================================
